---- MODULE Spec2Model ----
(***************************************************************************)
(* Model of temporal-serverless-workflow: a Serverless Workflow document   *)
(* is loaded, validated (Workflow.Validate), compiled into Temporal        *)
(* workflows (Workflow.workflowBuilder) and run by the sequential executor *)
(* (TemporalWorkflow.Workflow); Fork tasks fan out into coroutines that    *)
(* are joined with a sync.WaitGroup and a buffered error channel.          *)
(***************************************************************************)
EXTENDS Integers, Sequences, FiniteSets, TLC

VARIABLES
    doc,        \* w.wf.Do: the parsed top-level task list
    validate,   \* rootOpts.Validate
    phase,      \* position of rootCmd.Run and of the workflow run
    wfs,        \* result of BuildWorkflows: the list of TemporalWorkflow
    loadErr,    \* error reported by Validate or BuildWorkflows
    idx,        \* position of the executor's loop in t.Tasks (1-based)
    cur,        \* what the unit at idx is doing: "idle", "await", "join",
                \* "register", "signal"
    vars,       \* vars.Data of the running sequence (the VariableContext)
    output,     \* output map of the running sequence (the OutputMap)
    effects,    \* host primitives used so far, per task key
    invoked,    \* positions of t.Tasks whose Task function has been called
    returned,   \* [pos, err] of every Task call that has returned, in order
    result,     \* what Workflow returned: [out, err]
    br,         \* the coroutines started by the Fork unit in progress
    errs,       \* the Fork's buffered error channel: [cap, buf]
    wg,         \* the Fork's sync.WaitGroup counter
    forkRet,    \* what the last Fork unit returned: [pos, key, err]
    varsAtFork, \* vars.Data when the last Fork unit was invoked
    lsn,        \* the Listen unit in progress (or the last one): its closure's locals
    act,        \* the CallHTTP activity in progress (or the last one)
    server,     \* the answers the server called may give (NoResponse: none)
    clock,      \* the host's logical time (workflow.Now) and the Sleep timer
    markers,    \* the values recorded by workflow.SideEffect, in call order
    replay,     \* the replay of the run from its history: [idx, data, next]
    raised,     \* what every call of a Raise task's function returned, in order
    host        \* what the process is started with: the --env-prefix flag, the
                \* environment (os.Environ) and the input of the workflow run

vars_all == <<doc, validate, phase, wfs, loadErr, idx, cur, vars, output, effects,
              invoked, returned, result, br, errs, wg, forkRet, varsAtFork, lsn,
              act, server, clock, markers, replay, raised, host>>

(***************************************************************************)
(* Bounds of the documents explored.                                       *)
(***************************************************************************)
MaxTasks == 2
MaxBranches == 2
MaxEvents == 3
MaxActivityAttempts == 2
MaxRaises == 2

\* The nil error; every error is a non-empty tuple of strings.
Nil == <<>>
NoIf == "noif"

\* Results a task's `if` expression can evaluate to (NoIf: no `if` given).
Guards == {NoIf, "true", "false"}

\* Task names, by position in their list.
TopKeys == <<"t1", "t2", "t3", "t4">>
SubKeys == <<"b1", "b2", "b3", "b4">>

(***************************************************************************)
(* Values of vars.Data (map[string]any) by Go type, and the statements     *)
(* (text/template sources) the documents explored use.                     *)
(***************************************************************************)
Str(text) == <<"string", text>>
Num(digits) == <<"number", digits>>
NilValue == <<"nil">>

IsString(value) == value[1] = "string"

EndpointPlain == "https://example.com/users"
EndpointUser == "https://example.com/users/{{ .userId }}"

\* A statement that calls a helper whose result differs from call to call.
StampTpl == "{{ uuidv4 }}"

\* What such a helper may return; NoHelper where a statement calls none.
Generated == {"u1", "u2"}
NoHelper == "none"

\* An endpoint that names an environment variable.
EndpointEnv == "https://example.com/{{ .TSW_A }}"

\* An endpoint that names the task t1, whose result an earlier call recorded.
EndpointPrev == "https://example.com/users/{{ .t1 }}"

\* A key of a Set task's `set` map that is itself a template.
KeyTpl == "{{ .name }}"

(***************************************************************************)
(* model.Duration (inline form) and time.Duration, counted in milliseconds.*)
(***************************************************************************)
Duration(days, hours, minutes, seconds, milliseconds) ==
    [Days |-> days, Hours |-> hours, Minutes |-> minutes, Seconds |-> seconds,
     Milliseconds |-> milliseconds]

NoDuration == Duration(0, 0, 0, 0, 0)

\* The Wait of `5` seconds.
FiveSeconds == Duration(0, 0, 0, 5, 0)

(***************************************************************************)
(* The process: the --env-prefix flag, os.Environ() and the input the      *)
(* workflow is started with.                                               *)
(***************************************************************************)
EnvVar(name, value) == [name |-> name, value |-> value]

\* The characters of the names and prefixes explored.
Chars(text) ==
    CASE text = "TSW" -> <<"T", "S", "W">>
      [] text = "tsw" -> <<"t", "s", "w">>
      [] text = "TSW_A" -> <<"T", "S", "W", "_", "A">>
      [] text = "tsw_a" -> <<"t", "s", "w", "_", "a">>
      [] text = "TSWEET" -> <<"T", "S", "W", "E", "E", "T">>
      [] text = "HOME" -> <<"H", "O", "M", "E">>
      [] OTHER -> <<text>>

Texts == {"TSW", "tsw", "TSW_A", "tsw_a", "TSWEET", "HOME"}

UpperChar(c) ==
    CASE c = "t" -> "T" [] c = "s" -> "S" [] c = "w" -> "W" [] c = "a" -> "A"
      [] OTHER -> c

\* strings.ToUpper
ToUpper(text) ==
    CHOOSE u \in Texts :
        Chars(u) = [i \in 1..Len(Chars(text)) |-> UpperChar(Chars(text)[i])]

\* strings.HasPrefix
HasPrefix(text, prefix) ==
    /\ Len(Chars(prefix)) <= Len(Chars(text))
    /\ SubSeq(Chars(text), 1, Len(Chars(prefix))) = Chars(prefix)

Host(prefix, env, input) == [prefix |-> prefix, env |-> env, input |-> input]

\* The default flag, an environment without a variable of that prefix and
\* a run started without input.
DefaultHost == Host("TSW", {EnvVar("HOME", "/root")}, [k \in {} |-> <<>>])

\* The environment variables explored, the flags and the inputs.
EnvVars ==
    {EnvVar("TSW_A", "1"), EnvVar("tsw_a", "2"), EnvVar("TSWEET", "3"),
     EnvVar("HOME", "/root")}

Prefixes == {"TSW", "tsw"}

Inputs ==
    {[k \in {} |-> <<>>],
     [k \in {"userId"} |-> <<"string", "2">>],
     [k \in {"HOME", "TSW_A"} |-> <<"string", "input">>]}

Hosts == {Host(p, env, input) : p \in Prefixes, env \in SUBSET EnvVars, input \in Inputs}

(***************************************************************************)
(* model.Error, the definition a Raise task declares: type, title, detail  *)
(* and status; Title, Detail and Instance are pointers (Unset: nil).       *)
(***************************************************************************)
Unset == "nil"

ErrorDef(type, title, detail, status) ==
    [Type |-> type, Title |-> title, Detail |-> detail, Status |-> status,
     Instance |-> Unset]

\* task.Raise.Error.Definition is nil (the error is given by reference).
NoDefinition == <<>>

\* A title that is a runtime expression over the context.
TitleExpr == "${ .name }"

\* The error types explored: two built-in categories, the Temporal type and
\* a type of the document's own.
ErrorTypeValidation == "https://serverlessworkflow.io/spec/1.0.0/errors/validation"
ErrorTypeTimeout == "https://serverlessworkflow.io/spec/1.0.0/errors/timeout"
TemporalErrMapping == "https://go.dev/panic"
CustomType == "https://example.com/errors/custom"

PlainError == ErrorDef(CustomType, "title", "detail", 400)

\* One entry of a Set task's `set` map; a nameless entry is named after its task.
SetEntry(key, value) == [key |-> key, value |-> value]

Shape(k, g, to, sub) ==
    [kind |-> k, if |-> g, to |-> to, sub |-> sub, events |-> <<>>,
     set |-> IF k = "set" THEN <<SetEntry("", Str("set"))>> ELSE <<>>,
     endpoint |-> IF k = "http" THEN EndpointPlain ELSE "",
     wait |-> IF k = "wait" THEN FiveSeconds ELSE NoDuration,
     raise |-> IF k = "raise" THEN <<PlainError>> ELSE NoDefinition,
     compete |-> FALSE]

\* A Set task of one entry, and a CallHTTP task with the given endpoint.
SetShape(key, value) ==
    [kind |-> "set", if |-> NoIf, to |-> "", sub |-> <<>>, events |-> <<>>,
     set |-> <<SetEntry(key, value)>>, endpoint |-> "", wait |-> NoDuration,
     raise |-> NoDefinition, compete |-> FALSE]

HTTPShape(endpoint) ==
    [kind |-> "http", if |-> NoIf, to |-> "", sub |-> <<>>, events |-> <<>>,
     set |-> <<>>, endpoint |-> endpoint, wait |-> NoDuration,
     raise |-> NoDefinition, compete |-> FALSE]

\* A Listen task: `to` names the listen.to member that is set ("one", "any",
\* "all", "until", or "none" when none is), events its event filters.
ListenShape(to, events) ==
    [kind |-> "listen", if |-> NoIf, to |-> to, sub |-> <<>>, events |-> events,
     set |-> <<>>, endpoint |-> "", wait |-> NoDuration,
     raise |-> NoDefinition, compete |-> FALSE]

\* A Wait task of the given duration.
WaitShape(duration) ==
    [kind |-> "wait", if |-> NoIf, to |-> "", sub |-> <<>>, events |-> <<>>,
     set |-> <<>>, endpoint |-> "", wait |-> duration, raise |-> NoDefinition, compete |-> FALSE]

\* The nested lists explored: a Do holding one task, and Fork branch lists of
\* nSet Set branches followed by CallHTTP branches.
NestedShapes == {Shape("set", NoIf, "", <<>>), Shape("for", NoIf, "", <<>>)}

WithKeys(shapes, keys) ==
    [i \in 1..Len(shapes) |->
        [key |-> keys[i], kind |-> shapes[i].kind, if |-> shapes[i].if,
         to |-> shapes[i].to, sub |-> shapes[i].sub, events |-> shapes[i].events,
         set |-> [j \in 1..Len(shapes[i].set) |->
                    SetEntry(IF shapes[i].set[j].key = "" THEN keys[i]
                             ELSE shapes[i].set[j].key,
                             shapes[i].set[j].value)],
         endpoint |-> shapes[i].endpoint, wait |-> shapes[i].wait,
         raise |-> shapes[i].raise, compete |-> shapes[i].compete]]

(***************************************************************************)
(* Event filters of a Listen task: with.id, with.type and the additional   *)
(* properties `if` (update) and `timeout` (signal).                        *)
(***************************************************************************)
ListenTaskTypeQuery == "query"
ListenTaskTypeSignal == "signal"
ListenTaskTypeUpdate == "update"

EventIds == <<"e1", "e2", "e3", "e4">>

\* The `if` statement explored: a template that renders the `accept` entry.
IfAccept == "{{ .accept }}"

EventFilter(id, type, guard, timeout) ==
    [id |-> id, type |-> type, if |-> guard, timeout |-> timeout]

\* Valid filters of the given types, in order; every update carries `guard`,
\* every signal the `timeout` property when withTimeout.
EventList(types, guard, withTimeout) ==
    [i \in 1..Len(types) |->
        EventFilter(EventIds[i], types[i],
                    IF types[i] = ListenTaskTypeUpdate THEN guard ELSE NoIf,
                    types[i] = ListenTaskTypeSignal /\ withTimeout)]

\* The lists of types explored: up to MaxEvents updates, and the mixes of two.
TypeLists ==
    {[i \in 1..n |-> ListenTaskTypeUpdate] : n \in 1..MaxEvents}
    \cup {<<a>> : a \in {ListenTaskTypeQuery, ListenTaskTypeSignal}}
    \cup {<<a, b>> : a, b \in {ListenTaskTypeQuery, ListenTaskTypeSignal, ListenTaskTypeUpdate}}

EventLists ==
    {EventList(t, g, w) : t \in TypeLists, g \in {NoIf, IfAccept}, w \in BOOLEAN}

\* Filters validateEventFilter refuses.
BadFilters ==
    {EventFilter("", ListenTaskTypeUpdate, NoIf, FALSE),
     EventFilter("e1", "", NoIf, FALSE),
     EventFilter("e1", "stream", NoIf, FALSE),
     EventFilter("", "stream", NoIf, FALSE)}

ListenShapes ==
    {ListenShape(to, ev) : to \in {"any", "all"}, ev \in EventLists}
    \cup {ListenShape("one", ev) : ev \in {e \in EventLists : Len(e) = 1}}
    \cup {ListenShape(to, <<f>>) : to \in {"one", "any", "all"}, f \in BadFilters}
    \cup {ListenShape("all", <<EventFilter("e1", ListenTaskTypeUpdate, NoIf, FALSE), f>>) :
              f \in BadFilters}
    \cup {ListenShape("until", <<>>), ListenShape("none", <<>>)}

BranchList(n, nSet) ==
    WithKeys([i \in 1..n |-> Shape(IF i <= nSet THEN "set" ELSE "http", NoIf, "", <<>>)],
             SubKeys)

BranchLists == {BranchList(n, k) : n \in 1..MaxBranches, k \in 0..MaxBranches} 

\* A Fork task with its fork.compete flag and its branches.
ForkShape(compete, branches) ==
    [Shape("fork", NoIf, "", branches) EXCEPT !.compete = compete]

\* A Fork of either flag over every branch list, alone or followed by a Set.
ForkDocs ==
    {WithKeys(<<ForkShape(c, b)>> \o rest, TopKeys) :
        c \in BOOLEAN, b \in BranchLists, rest \in {<<>>, <<Shape("set", NoIf, "", <<>>)>>}}

TopShapes ==
    {Shape("set", g, "", <<>>) : g \in {NoIf, "false"}}
    \cup {Shape("wait", NoIf, "", <<>>)}
    \cup {Shape("http", g, "", <<>>) : g \in {NoIf, "false"}}
    \cup {ListenShape("one", EventList(<<t>>, NoIf, TRUE)) :
              t \in {ListenTaskTypeQuery, ListenTaskTypeSignal, ListenTaskTypeUpdate}}
    \cup {ListenShape("until", <<>>)}
    \cup {Shape("raise", NoIf, "", <<>>), Shape("for", NoIf, "", <<>>)}
    \cup {Shape("fork", NoIf, "", b) : b \in BranchLists}
    \cup {Shape("do", NoIf, "", WithKeys(<<s>>, SubKeys)) : s \in NestedShapes}

\* The documents explored: up to MaxTasks tasks, at most one of them a Fork.
Docs ==
    UNION {{WithKeys(s, TopKeys) :
               s \in {t \in [1..n -> TopShapes] :
                         Cardinality({i \in 1..n : t[i].kind = "fork"}) <= 1}} :
           n \in 1..MaxTasks}

\* Documents of Set and CallHTTP tasks: userId is set to a number or to a
\* string, and the endpoint called is plain or names {{ .userId }}.
CallShapes ==
    {SetShape("userId", v) : v \in {Num("2"), Str("2")}}
    \cup {HTTPShape(e) : e \in {EndpointPlain, EndpointUser, EndpointPrev}}

CallDocs ==
    UNION {{WithKeys(s, TopKeys) : s \in [1..n -> CallShapes]} : n \in 1..MaxTasks}

\* Task names of a list whose items all carry the same name.
SameKeys == <<"t1", "t1", "t1", "t1">>

\* Documents of CallHTTP and Set tasks whose names are all different or all
\* the same (`do` is a list of one-key maps: a name may come again).
KeyDocs ==
    UNION {{WithKeys(s, keys) :
               s \in [1..n -> {HTTPShape(EndpointPlain), Shape("set", NoIf, "", <<>>)}],
               keys \in {TopKeys, SameKeys}} :
           n \in 1..MaxTasks}

\* Documents of Set tasks and of CallHTTP tasks whose endpoint names an
\* environment variable.
SeedDocs ==
    UNION {{WithKeys(s, TopKeys) :
               s \in [1..n -> {SetShape("userId", Str("2")), HTTPShape(EndpointEnv)}]} :
           n \in 1..MaxTasks}

\* The entries of the Set tasks explored: a generated value, a plain text,
\* a number and a plain text under a key that is a template.
SetEntries ==
    {SetEntry("id", Str(StampTpl)), SetEntry("name", Str("set")),
     SetEntry("userId", Num("2")), SetEntry(KeyTpl, Str("set"))}

\* A Set task of the given entries.
SetShapeOf(entries) ==
    [kind |-> "set", if |-> NoIf, to |-> "", sub |-> <<>>, events |-> <<>>,
     set |-> entries, endpoint |-> "", wait |-> NoDuration,
     raise |-> NoDefinition, compete |-> FALSE]

\* Set tasks of one entry and of two entries with different keys.
SetShapes ==
    {SetShapeOf(<<a>>) : a \in SetEntries}
    \cup {SetShapeOf(<<q[1], q[2]>>) :
              q \in {r \in SetEntries \X SetEntries : r[1].key # r[2].key}}

\* Documents of Set tasks only.
SetDocs ==
    UNION {{WithKeys(t, TopKeys) : t \in [1..n -> SetShapes]} : n \in 1..MaxTasks}

\* The Wait durations explored: every component absent or present.
Durations ==
    {Duration(d, h, m, sec, ms) :
        d \in {0, 1}, h \in {0, 2}, m \in {0, 3}, sec \in {0, 5}, ms \in {0, 7}}

\* Documents that start with a Wait task, followed by Set and Wait tasks.
WaitDocs ==
    {WithKeys(<<WaitShape(v)>> \o t, TopKeys) :
        v \in Durations,
        t \in UNION {[1..n -> {Shape("set", NoIf, "", <<>>), WaitShape(FiveSeconds)}] :
                        n \in 0..(MaxTasks - 1)}}

\* A Raise task of the given definition (NoDefinition or <<definition>>).
RaiseShape(definition) ==
    [kind |-> "raise", if |-> NoIf, to |-> "", sub |-> <<>>, events |-> <<>>,
     set |-> <<>>, endpoint |-> "", wait |-> NoDuration, raise |-> definition,
     compete |-> FALSE]

\* The definitions explored: every type, the title absent, plain or an
\* expression, the detail absent or plain.
ErrorDefs ==
    {ErrorDef(type, title, detail, 400) :
        type \in {ErrorTypeValidation, ErrorTypeTimeout, TemporalErrMapping, CustomType},
        title \in {Unset, "title", TitleExpr},
        detail \in {Unset, "detail"}}

\* Documents that end with a Raise task, alone or after a Set of `name`.
RaiseDocs ==
    {WithKeys(t \o <<RaiseShape(d)>>, TopKeys) :
        t \in {<<>>, <<SetShape("name", Str("set"))>>},
        d \in {NoDefinition} \cup {<<x>> : x \in ErrorDefs}}

\* Documents that start with a Listen task, followed by Set tasks.
ListenDocs ==
    {WithKeys(<<l>> \o [i \in 1..n |-> Shape("set", NoIf, "", <<>>)], TopKeys) :
        l \in ListenShapes, n \in 0..(MaxTasks - 1)}

(***************************************************************************)
(* Workflow.Validate: walks the top-level task list only.                  *)
(***************************************************************************)
ValidateRejects ==
    {"emit", "for", "fork", "grpc", "listen", "openapi", "raise", "run", "switch", "try"}

RECURSIVE ValidateFrom(_, _)
ValidateFrom(tasks, i) ==
    IF i > Len(tasks) THEN Nil
    ELSE IF tasks[i].kind \in ValidateRejects
         THEN <<tasks[i].kind, "tasks are not supported">>
         ELSE ValidateFrom(tasks, i + 1)

Validate(tasks) == ValidateFrom(tasks, 1)

(***************************************************************************)
(* Workflow.workflowBuilder and the per-kind task constructors.            *)
(***************************************************************************)
ErrUnsupportedTask == <<"task not supported">>

NoTask == [kind |-> "none", item |-> <<>>, children |-> <<>>]
HasTask(t) == t.kind # "none"

GenerateChildWorkflowName(prefix, key) == <<"workflow", "_", prefix, "_", key>>

ErrUnsetListenIDTask == <<"listen task id is not set">>
ErrUnsetListenTypeTask == <<"listen task type is not set">>
ErrUnknownListenTypeTask == <<"listen task type is not known">>

validTaskTypes == {ListenTaskTypeQuery, ListenTaskTypeSignal, ListenTaskTypeUpdate}

SkipTypeCheck(event) ==
    IF event.id = "" THEN ErrUnsetListenIDTask ELSE Nil

validateEventFilter(event) ==
    IF event.id = "" THEN ErrUnsetListenIDTask
    ELSE IF event.type = "" THEN ErrUnsetListenTypeTask
    ELSE IF event.type \notin validTaskTypes THEN ErrUnknownListenTypeTask
    ELSE Nil

\* The %d of the error text: the 0-based position of the filter in its list.
IndexText == <<"0", "1", "2", "3", "4">>

\* The loop over listen.to.all / listen.to.any: stops at the first invalid filter.
RECURSIVE ConfigureList(_, _, _, _)
ConfigureList(list, k, key, acc) ==
    IF k > Len(list) THEN [events |-> acc, err |-> Nil]
    ELSE IF validateEventFilter(list[k]) # Nil
         THEN [events |-> acc,
               err |-> validateEventFilter(list[k]) \o <<key, IndexText[k]>>]
         ELSE ConfigureList(list, k + 1, key, Append(acc, list[k]))

\* listenConfigure: (events, isAll, err) of a Listen task.
listenConfigure(item) ==
    CASE item.to = "all" /\ Len(item.events) > 0 ->
            LET c == ConfigureList(item.events, 1, item.key, <<>>)
            IN  [events |-> c.events, isAll |-> TRUE, err |-> c.err]
      [] item.to = "any" /\ Len(item.events) > 0 ->
            LET c == ConfigureList(item.events, 1, item.key, <<>>)
            IN  [events |-> c.events, isAll |-> FALSE, err |-> c.err]
      [] item.to = "one" /\ Len(item.events) > 0 ->
            IF validateEventFilter(item.events[1]) # Nil
            THEN [events |-> <<>>, isAll |-> FALSE,
                  err |-> validateEventFilter(item.events[1]) \o <<item.key>>]
            ELSE [events |-> <<item.events[1]>>, isAll |-> FALSE, err |-> Nil]
      [] item.to = "until" ->
            [events |-> <<>>, isAll |-> FALSE,
             err |-> ErrUnsupportedTask \o <<"listen.to.until">>]
      [] OTHER -> [events |-> <<>>, isAll |-> FALSE, err |-> ErrUnsetListenIDTask]

PrependTask(units, unit) == <<unit>> \o units

\* wf.Tasks = append(wf.Tasks, TemporalWorkflowTask{Key: item.Key, Task: task})
AppendTask(units, unit) == Append(units, unit)

RECURSIVE workflowBuilder(_, _)
RECURSIVE BuildItems(_, _, _, _)

\* doTaskImpl: the nested list is built as a workflow of its own.
doTaskImpl(item) == workflowBuilder(item.sub, <<item.key>>)

forkTaskImpl(item) ==
    LET built == workflowBuilder(item.sub, GenerateChildWorkflowName("fork", item.key))
    IN  IF built.err # Nil
        THEN [task |-> NoTask, err |-> <<"error building forked workflow">> \o built.err]
        ELSE [task |-> [kind |-> "fork", item |-> item, children |-> built.wfs],
              err |-> Nil]

\* listenTaskImpl: the closure keeps events and isAll of listenConfigure.
listenTaskImpl(item) ==
    IF listenConfigure(item).err # Nil
    THEN [task |-> NoTask, err |-> listenConfigure(item).err]
    ELSE [task |-> [kind |-> "listen", item |-> item, children |-> <<>>], err |-> Nil]

LeafTask(item) == [kind |-> item.kind, item |-> item, children |-> <<>>]

\* The chain of As...Task() tests of one loop iteration: [task, err, additional].
DispatchItem(item) ==
    CASE item.kind = "http" -> [task |-> LeafTask(item), err |-> Nil, additional |-> <<>>]
      [] item.kind = "do" ->
            LET d == doTaskImpl(item)
            IN  [task |-> NoTask, err |-> d.err, additional |-> d.wfs]
      [] item.kind = "fork" ->
            LET f == forkTaskImpl(item)
            IN  [task |-> f.task, err |-> f.err, additional |-> <<>>]
      [] item.kind = "listen" ->
            LET l == listenTaskImpl(item)
            IN  [task |-> l.task, err |-> l.err, additional |-> <<>>]
      [] item.kind = "set" -> [task |-> LeafTask(item), err |-> Nil, additional |-> <<>>]
      [] item.kind = "wait" -> [task |-> LeafTask(item), err |-> Nil, additional |-> <<>>]
      [] OTHER -> [task |-> NoTask, err |-> Nil, additional |-> <<>>]

BuildItems(items, name, acc, units) ==
    IF items = <<>>
    THEN [wfs |-> Append(acc, [Name |-> name, Tasks |-> units]), err |-> Nil]
    ELSE LET item == Head(items)
             r == DispatchItem(item)
         IN  IF r.err # Nil
             THEN [wfs |-> <<>>, err |-> r.err]
             ELSE BuildItems(Tail(items), name, acc \o r.additional,
                             IF HasTask(r.task)
                             THEN AppendTask(units, [Key |-> item.key, Task |-> r.task])
                             ELSE units)

workflowBuilder(tasks, name) == BuildItems(tasks, name, <<>>, <<>>)

BuildWorkflows(tasks) ==
    LET d == workflowBuilder(tasks, <<"document">>)
    IN  IF d.err # Nil
        THEN [wfs |-> <<>>, err |-> <<"error building workflows">> \o d.err]
        ELSE d

\* The root workflow is the last one workflowBuilder appends.
RootTasks == IF wfs = <<>> THEN <<>> ELSE wfs[Len(wfs)].Tasks

(***************************************************************************)
(* Maps (vars.Data, the output maps) and the host effects log.             *)
(***************************************************************************)
EmptyMap == [k \in {} |-> Nil]

Put(m, k, v) == [x \in (DOMAIN m) \cup {k} |-> IF x = k THEN v ELSE m[x]]

Effect(key, what) == [key |-> key, what |-> what]

NoFork == [pos |-> 0, key |-> "", err |-> Nil]

\* The last update attempt: its event, the rendered `if` and the reply.
NoAttempt == [event |-> 0, conditional |-> <<>>, guarded |-> FALSE, EventComplete |-> FALSE]

NoListenRet == [done |-> FALSE, err |-> Nil, fired |-> {}]

\* No Listen unit has been invoked yet.
NoListen ==
    [pos |-> 0, events |-> <<>>, isAll |-> FALSE, i |-> 1, await |-> FALSE,
     isAllComplete |-> <<>>, isAnyComplete |-> FALSE, waitAny |-> FALSE,
     handlers |-> {}, fired |-> {}, attempts |-> 0, rejected |-> 0,
     last |-> NoAttempt,
     ret |-> NoListenRet]

\* Logical time starts at 0, no timer is pending and no Sleep has returned.
NoTimer == -1

NoClock == [now |-> 0, from |-> 0, due |-> NoTimer, slept |-> <<>>]

\* No replay has started: it re-executes the sequence from its first unit.
NoReplay == [idx |-> 1, data |-> EmptyMap, next |-> 1]

NoResult == [returned |-> FALSE, outNil |-> TRUE, out |-> EmptyMap, err |-> Nil]

\* The parsed template of a statement: literal text and {{ .name }} fields.
TemplateParts(statement) ==
    CASE statement = IfAccept -> <<<<"field", "accept">>>>
      [] statement = EndpointUser ->
            <<<<"text", "https://example.com/users/">>, <<"field", "userId">>>>
      [] statement = EndpointPrev ->
            <<<<"text", "https://example.com/users/">>, <<"field", "t1">>>>
      [] statement = StampTpl -> <<<<"call", "uuidv4">>>>
      [] statement = KeyTpl -> <<<<"field", "name">>>>
      [] statement = EndpointEnv ->
            <<<<"text", "https://example.com/">>, <<"field", "TSW_A">>>>
      [] OTHER -> <<<<"text", statement>>>>

\* text/template's printing of a field of map[string]any: a missing key or a
\* nil value prints "<no value>".
FieldText(data, name) ==
    IF name \notin DOMAIN data THEN "<no value>"
    ELSE IF data[name] = NilValue THEN "<no value>"
    ELSE data[name][2]

\* ParseVariables: the rendered text of a statement against vars.Data, as the
\* sequence of its pieces; generated is what the helpers called return.
ParseVariables(statement, data, generated) ==
    LET parts == TemplateParts(statement)
    IN  [i \in 1..Len(parts) |->
            CASE parts[i][1] = "text" -> parts[i][2]
              [] parts[i][1] = "field" -> FieldText(data, parts[i][2])
              [] OTHER -> generated]

\* The rendered pieces as one string value (pieces are kept apart).
Joined(pieces) == <<"string">> \o pieces

\* setTaskValue: what the function handed to workflow.SideEffect computes.
setTaskValue(input, data, generated) == Joined(ParseVariables(input, data, generated))

\* setTaskInterpolate on a scalar: a string becomes what setTaskValue's
\* SideEffect returned; the default case leaves the named result outputValue
\* unset.
setTaskInterpolate(value, sideEffect) ==
    IF IsString(value) THEN sideEffect ELSE NilValue

\* The orders in which `for key, value := range task.Set` may visit n entries.
RangeOrders(n) ==
    {o \in [1..n -> 1..n] : \A a, b \in 1..n : a # b => o[a] # o[b]}

\* The results the helpers of a value may have where it is rendered.
HelperResults(value) == IF value = Str(StampTpl) THEN Generated ELSE {NoHelper}

\* The state of the loop of setTaskImpl: vars.Data, the SideEffect markers of
\* the history and the number of the next SideEffect call.
SetState(data, recorded, next) == [data |-> data, markers |-> recorded, next |-> next]

\* The loop of setTaskImpl over the first `stop` entries visited. A first
\* execution runs the function of every SideEffect and records its value; a
\* replay is handed the value recorded for the call of the same number.
RECURSIVE SetLoop(_, _, _, _, _, _, _)
SetLoop(set, order, k, stop, st, generated, replaying) ==
    IF k > stop THEN st
    ELSE LET entry == set[order[k]]
             sideEffect == IF replaying THEN st.markers[st.next]
                           ELSE setTaskValue(entry.value[2], st.data, generated[order[k]])
             after == IF IsString(entry.value)
                      THEN SetState(Put(st.data, entry.key,
                                        setTaskInterpolate(entry.value, sideEffect)),
                                    IF replaying THEN st.markers
                                    ELSE Append(st.markers, sideEffect),
                                    st.next + 1)
                      ELSE SetState(Put(st.data, entry.key,
                                        setTaskInterpolate(entry.value, NilValue)),
                                    st.markers, st.next)
         IN  SetLoop(set, order, k + 1, stop, after, generated, replaying)

(***************************************************************************)
(* activities.CallHTTP: the classification of the response.                *)
(***************************************************************************)
\* client.Do failed: there is no response.
NoResponse == 0

\* The response statuses explored.
Statuses == {200, 399, 400, 404, 499, 500, 599}

NoOutcome == [outcome |-> "none", status |-> 0, err |-> Nil]

NoActivity ==
    [pos |-> 0, url |-> <<>>, attempts |-> 0, log |-> <<>>, last |-> NoOutcome,
     done |-> FALSE]

ClientErrorAbove400(response) ==
    IF response = NoResponse
    THEN [outcome |-> "retryable", status |-> response, err |-> <<"error making http call">>]
    ELSE IF response > 400 /\ response < 500
    THEN [outcome |-> "nonretryable", status |-> response,
          err |-> <<"CallHTTP returned 4xx error", ToString(response)>>]
    ELSE IF response >= 500 /\ response < 600
    THEN [outcome |-> "retryable", status |-> response,
          err |-> <<"CallHTTP returned 5xx error", ToString(response)>>]
    ELSE [outcome |-> "success", status |-> response, err |-> Nil]

ClientErrorRetryable(response) ==
    IF response = NoResponse
    THEN [outcome |-> "retryable", status |-> response, err |-> <<"error making http call">>]
    ELSE IF response >= 400 /\ response < 500
    THEN [outcome |-> "retryable", status |-> response,
          err |-> <<"CallHTTP returned 4xx error", ToString(response)>>]
    ELSE IF response >= 500 /\ response < 600
    THEN [outcome |-> "retryable", status |-> response,
          err |-> <<"CallHTTP returned 5xx error", ToString(response)>>]
    ELSE [outcome |-> "success", status |-> response, err |-> Nil]

\* 4xx: temporal.NewNonRetryableApplicationError; 5xx: NewApplicationError;
\* a plain error (client.Do) is retryable; anything else is the result.
CallHTTP(response) ==
    IF response = NoResponse
    THEN [outcome |-> "retryable", status |-> response, err |-> <<"error making http call">>]
    ELSE IF response >= 400 /\ response < 500
    THEN [outcome |-> "nonretryable", status |-> response,
          err |-> <<"CallHTTP returned 4xx error", ToString(response)>>]
    ELSE IF response >= 500 /\ response < 600
    THEN [outcome |-> "retryable", status |-> response,
          err |-> <<"CallHTTP returned 5xx error", ToString(response)>>]
    ELSE [outcome |-> "success", status |-> response, err |-> Nil]

(***************************************************************************)
(* CheckIfStatement: the `if` of a task is parsed by gojq.Parse and run     *)
(* against a copy of vars.Data; the iterator yields values and errors.      *)
(***************************************************************************)
Bool(text) == <<"bool", text>>
Obj == <<"object">>
Arr == <<"array">>
JQError(message) == <<"error", message>>

\* An `if` that gojq.Parse refuses.
Unparsable == "("

\* What iter.Next() yields for the expressions explored, in order (none of
\* them reads the data).
QueryRun(expression) ==
    CASE expression = "true" -> <<Bool("true")>>
      [] expression = "false" -> <<Bool("false")>>
      [] expression = "\"true\"" -> <<Str("true")>>
      [] expression = "\"TRUE\"" -> <<Str("TRUE")>>
      [] expression = "\"True\"" -> <<Str("True")>>
      [] expression = "\"1\"" -> <<Str("1")>>
      [] expression = "\"yes\"" -> <<Str("yes")>>
      [] expression = "\"0\"" -> <<Str("0")>>
      [] expression = "1" -> <<Num("1")>>
      [] expression = "null" -> <<NilValue>>
      [] expression = "{}" -> <<Obj>>
      [] expression = "[]" -> <<Arr>>
      [] expression = "empty" -> <<>>
      [] expression = "true, 5" -> <<Bool("true"), Num("5")>>
      [] expression = "\"1\", null" -> <<Str("1"), NilValue>>
      [] expression = "true, false" -> <<Bool("true"), Bool("false")>>
      [] expression = "false, true" -> <<Bool("false"), Bool("true")>>
      [] expression = "error(\"x\")" -> <<JQError("x")>>
      [] expression = "true, error(\"x\")" -> <<Bool("true"), JQError("x")>>
      [] OTHER -> <<>>

\* The expressions explored, with the one that does not parse.
GuardExprs ==
    {"true", "false", "\"true\"", "\"TRUE\"", "\"True\"", "\"1\"", "\"yes\"", "\"0\"",
     "1", "null", "{}", "[]", "empty", "true, 5", "\"1\", null", "true, false",
     "false, true", "error(\"x\")", "true, error(\"x\")", Unparsable}

\* strings.EqualFold on the strings explored: equal under case folding.
Fold(text) == IF text \in {"true", "TRUE", "True"} THEN "TRUE" ELSE text

EqualFold(a, b) == Fold(a) = Fold(b)

\* fmt.Errorf("unable to parse if statement as expression: %w", err)
ParseFailure == <<"unable to parse if statement as expression">>

\* temporal.NewNonRetryableApplicationError(message, type, cause)
NewNonRetryableApplicationError(message, type) ==
    <<"NonRetryableApplicationError", message, type>>

IfStatementErr == "IfStatementErr"

\* The loop over iter.Next(): an error returns at once; a bool or a string
\* assigns toRun; a value of any other type leaves toRun as it is.
RECURSIVE IterNext(_, _, _)
IterNext(results, k, toRun) ==
    IF k > Len(results) THEN [toRun |-> toRun, err |-> Nil]
    ELSE LET v == results[k]
         IN  CASE v[1] = "error" ->
                    [toRun |-> toRun,
                     err |-> NewNonRetryableApplicationError(
                                 "Error parsing if statement in JQ", IfStatementErr)]
               [] v[1] = "bool" -> IterNext(results, k + 1, v[2] = "true")
               [] v[1] = "string" ->
                    IterNext(results, k + 1, EqualFold(v[2], "TRUE") \/ v[2] = "1")
               [] OTHER -> IterNext(results, k + 1, toRun)

\* CheckIfStatement's two results (toRun, err).
CheckIf(item) ==
    IF item.if = NoIf THEN [toRun |-> TRUE, err |-> Nil]
    ELSE IF item.if = Unparsable THEN [toRun |-> FALSE, err |-> ParseFailure]
    ELSE IterNext(QueryRun(item.if), 1, FALSE)

\* CheckIfStatement: no `if` runs the task; otherwise the results decide.
CheckIfStatement(item) == CheckIf(item).toRun

CheckIfError(item) == CheckIf(item).err

\* Documents that start with a CallHTTP task guarded by one of the
\* expressions explored, followed by Set tasks.
GuardDocs ==
    {WithKeys(<<Shape("http", g, "", <<>>)>> \o [i \in 1..n |-> Shape("set", NoIf, "", <<>>)],
              TopKeys) :
        g \in GuardExprs, n \in 0..(MaxTasks - 1)}

Init ==
    /\ doc \in Docs
    /\ validate \in BOOLEAN
    /\ phase = "loaded"
    /\ wfs = <<>>
    /\ loadErr = Nil
    /\ idx = 1
    /\ cur = "idle"
    /\ vars = EmptyMap
    /\ output = EmptyMap
    /\ effects = {}
    /\ invoked = <<>>
    /\ returned = <<>>
    /\ result = NoResult
    /\ br = <<>>
    /\ errs = [cap |-> 0, buf |-> <<>>]
    /\ wg = 0
    /\ forkRet = NoFork
    /\ varsAtFork = EmptyMap
    /\ lsn = NoListen
    /\ act = NoActivity
    /\ server = {200, 404}
    /\ clock = NoClock
    /\ markers = <<>>
    /\ replay = NoReplay
    /\ raised = <<>>
    /\ host = DefaultHost

runVars == <<idx, cur, vars, output, effects, invoked, returned, result>>
forkVars == <<br, errs, wg, forkRet, varsAtFork>>
listenVars == <<lsn>>
callVars == <<act>>

(***************************************************************************)
(* rootCmd.Run: validation (when enabled), then BuildWorkflows and the     *)
(* registration of every workflow built.                                   *)
(***************************************************************************)
RunValidate ==
    /\ phase = "loaded"
    /\ IF validate /\ Validate(doc) # Nil
       THEN phase' = "invalid" /\ loadErr' = Validate(doc)
       ELSE phase' = "validated" /\ loadErr' = loadErr
    /\ UNCHANGED <<doc, validate, host, server, raised, markers, replay, clock, wfs, runVars, forkVars, listenVars, callVars>>

RunBuild ==
    /\ phase = "validated"
    /\ LET b == BuildWorkflows(doc)
       IN  IF b.err # Nil
           THEN phase' = "buildfail" /\ loadErr' = b.err /\ wfs' = wfs
           ELSE phase' = "registered" /\ loadErr' = loadErr /\ wfs' = b.wfs
    /\ UNCHANGED <<doc, validate, host, server, raised, markers, replay, clock, runVars, forkVars, listenVars, callVars>>

(***************************************************************************)
(* TemporalWorkflow.Workflow: the sequential executor.                     *)
(***************************************************************************)
Running == phase = "running"

Unit == RootTasks[idx]

AtUnit(kind) ==
    /\ Running
    /\ cur = "idle"
    /\ idx <= Len(RootTasks)
    /\ Unit.Task.kind = kind

Awaiting(kind) ==
    /\ Running
    /\ cur = "await"
    /\ Unit.Task.kind = kind

\* info.WorkflowExecution.ID
InstanceID == "workflow-1"

PrefixAsGiven == host.prefix

\* LoadFromFile: `envPrefix: strings.ToUpper(envPrefix)`, handed on by
\* workflowBuilder as the EnvPrefix of every workflow.
envPrefix == ToUpper(host.prefix)

\* GetWorkflowInfo: the metadata of the run the host provides.
GetWorkflowInfo == [k \in {"workflow_id"} |-> Str(InstanceID)]

\* maps.Copy(dst, src)
MapsCopy(dst, src) ==
    [k \in (DOMAIN dst) \cup (DOMAIN src) |-> IF k \in DOMAIN src THEN src[k] ELSE dst[k]]

\* The loop over os.Environ(): the variables whose name has the prefix.
LoadEnv(env, prefix) ==
    LET names == {e.name : e \in {x \in env : HasPrefix(x.name, prefix)}}
    IN  [k \in names |-> Str((CHOOSE e \in env : e.name = k).value)]

StartWorkflow ==
    /\ phase = "registered"
    /\ phase' = "running"
    /\ idx' = 1
    /\ cur' = "idle"
    /\ vars' = MapsCopy(MapsCopy(GetWorkflowInfo, host.input), LoadEnv(host.env, envPrefix))
    /\ output' = EmptyMap
    /\ replay' = [NoReplay EXCEPT !.data = vars']
    /\ UNCHANGED <<doc, validate, host, server, raised, markers, clock, wfs, loadErr, effects, invoked, returned, result, forkVars, listenVars, callVars>>

ContinueOnError(err) == FALSE

\* `if err := task.Task(ctx, vars, output); err != nil { return nil, err }`
StopOnError(err) == err # Nil

\* The Task call at idx returns err: the loop stops or moves to the next unit.
Returns(err) ==
    /\ returned' = Append(returned, [pos |-> idx, err |-> err])
    /\ cur' = "idle"
    /\ IF StopOnError(err)
       THEN /\ phase' = "failed"
            /\ result' = [returned |-> TRUE, outNil |-> TRUE, out |-> EmptyMap, err |-> err]
            /\ idx' = idx
       ELSE /\ phase' = phase
            /\ result' = result
            /\ idx' = idx + 1

\* The Task call at idx suspends on a host primitive.
Suspends(at) ==
    /\ cur' = at
    /\ UNCHANGED <<phase, idx, returned, result>>

\* The waits that go through a primitive of the host (workflow.Sleep,
\* Future.Get, workflow.AwaitWithTimeout, ReceiveChannel.Receive) and so hand
\* control back to the host's dispatcher; sync.WaitGroup.Wait ("join") and the
\* registration loop ("register") do not.
HostWaits == {"await", "signal"}

\* The coroutine of the sequence has yielded: the dispatcher may run another.
YieldsToHost == Running /\ cur \in HostWaits

\* `return output, nil` once the loop is over.
WorkflowReturn ==
    /\ Running
    /\ cur = "idle"
    /\ idx > Len(RootTasks)
    /\ phase' = "done"
    /\ result' = [returned |-> TRUE, outNil |-> FALSE, out |-> output, err |-> Nil]
    /\ UNCHANGED <<doc, validate, host, server, raised, markers, replay, clock, wfs, loadErr, idx, cur, vars, output, effects,
                   invoked, returned, forkVars, listenVars, callVars>>

(***************************************************************************)
(* The units: setTaskImpl, httpTaskImpl, waitTaskImpl, listenTaskImpl.     *)
(***************************************************************************)
SetRecordsOutput(out, key) == Put(out, <<key>>, "SetResult")

\* What setTaskImpl does with its `output` parameter: nothing.
setTaskOutput(out, key) == out

\* setTaskImpl: interpolates and writes every entry of task.Set, in the order
\* the range over the map yields them; the `if` is not looked at. The loop
\* ends after the last entry, or at a string entry whose SideEffect fails.
InvokeSet ==
    /\ AtUnit("set")
    /\ invoked' = Append(invoked, idx)
    /\ output' = setTaskOutput(output, Unit.Key)
    /\ LET set == Unit.Task.item.set
       IN  \E order \in RangeOrders(Len(set)) :
           \E generated \in [1..Len(set) -> Generated \cup {NoHelper}] :
           \E stop \in 0..Len(set) :
             /\ \A k \in 1..Len(set) : generated[k] \in HelperResults(set[k].value)
             /\ LET st == SetLoop(set, order, 1, stop, SetState(vars, markers, Len(markers) + 1),
                                  generated, FALSE)
                IN  /\ vars' = st.data
                    /\ markers' = st.markers
                    /\ IF stop = Len(set)
                       THEN /\ effects' = effects \cup {Effect(<<Unit.Key>>, "ctx")}
                            /\ Returns(Nil)
                       ELSE /\ IsString(set[order[stop + 1]].value)
                            /\ effects' = effects
                            /\ Returns(<<"unable to generate side effect value", Unit.Key>>)
    /\ UNCHANGED <<doc, validate, host, server, raised, replay, clock, wfs, loadErr, forkVars, listenVars, callVars>>

\* The host replays the finished run from its history: the Set unit at
\* replay.idx is executed again, every SideEffect returning its marker.
ReplaySet ==
    /\ phase = "done"
    /\ replay.idx <= Len(RootTasks)
    /\ RootTasks[replay.idx].Task.kind = "set"
    /\ LET set == RootTasks[replay.idx].Task.item.set
       IN  \E order \in RangeOrders(Len(set)) :
             LET st == SetLoop(set, order, 1, Len(set),
                               SetState(replay.data, markers, replay.next),
                               [k \in 1..Len(set) |-> NoHelper], TRUE)
             IN  replay' = [idx |-> replay.idx + 1, data |-> st.data, next |-> st.next]
    /\ UNCHANGED <<doc, validate, host, server, raised, markers, clock, phase, wfs, loadErr, runVars,
                   forkVars, listenVars, callVars>>

\* httpTaskImpl up to ExecuteActivity(...).Get: the `if` decides whether to
\* run; the activity's input (task, data) is fixed when it is scheduled.
InvokeHTTP ==
    /\ AtUnit("http")
    /\ invoked' = Append(invoked, idx)
    /\ IF CheckIfError(Unit.Task.item) # Nil
       THEN /\ effects' = effects
            /\ act' = act
            /\ Returns(CheckIfError(Unit.Task.item))
       ELSE IF CheckIfStatement(Unit.Task.item)
       THEN /\ effects' = effects \cup {Effect(<<Unit.Key>>, "activity")}
            /\ act' = [NoActivity EXCEPT !.pos = idx,
                           !.url = ParseVariables(Unit.Task.item.endpoint, vars, NoHelper)]
            /\ Suspends("await")
       ELSE /\ effects' = effects
            /\ act' = act
            /\ Returns(Nil)
    /\ UNCHANGED <<doc, validate, host, server, raised, markers, replay, clock, wfs, loadErr, vars, output, forkVars, listenVars>>

\* The host runs the activity: the first attempt, or another one after a
\* failure that is retryable.
HTTPAttempt(response) ==
    /\ Awaiting("http")
    /\ response \in server
    /\ act.attempts < MaxActivityAttempts
    /\ act.attempts = 0 \/ act.last.outcome = "retryable"
    /\ act' = [act EXCEPT !.attempts = @ + 1,
                          !.log = Append(@, response),
                          !.last = CallHTTP(response)]
    /\ UNCHANGED <<doc, validate, host, server, raised, markers, replay, clock, phase, wfs, loadErr, runVars, forkVars, listenVars>>

\* httpTaskImpl from the activity's result on: Get returns the result, or the
\* error of the last attempt once the host stops retrying.
HTTPReturn ==
    /\ Awaiting("http")
    /\ act.attempts > 0
    /\ act' = [act EXCEPT !.done = TRUE]
    /\ IF act.last.outcome = "success"
       THEN /\ output' = Put(output, <<Unit.Key>>, "CallHTTPResult")
            /\ Returns(Nil)
       ELSE /\ output' = output
            /\ Returns(<<"error calling http task", Unit.Key>> \o act.last.err)
    /\ UNCHANGED <<doc, validate, host, server, raised, markers, replay, clock, wfs, loadErr, vars, effects, invoked, forkVars, listenVars>>

\* The units of time.Duration, here in milliseconds.
Millisecond == 1
Second == 1000 * Millisecond
Minute == 60 * Second
Hour == 60 * Minute

DaysAsHours(v) ==
    Millisecond * v.Milliseconds + Second * v.Seconds + Minute * v.Minutes
        + Hour * v.Hours + Hour * v.Days

\* ToDuration: the inline components, each times its unit, summed.
ToDuration(v) ==
    Millisecond * v.Milliseconds + Second * v.Seconds + Minute * v.Minutes
        + Hour * v.Hours + (Hour * 24) * v.Days

\* waitTaskImpl up to workflow.Sleep: the host starts a timer of the duration.
InvokeWait ==
    /\ AtUnit("wait")
    /\ invoked' = Append(invoked, idx)
    /\ effects' = effects \cup {Effect(<<Unit.Key>>, "sleep")}
    /\ clock' = [clock EXCEPT !.from = clock.now,
                              !.due = clock.now + ToDuration(Unit.Task.item.wait)]
    /\ Suspends("await")
    /\ UNCHANGED <<doc, validate, host, server, raised, markers, replay, wfs, loadErr, vars, output, forkVars, listenVars, callVars>>

\* The host's logical time moves on while the timer is pending: the run is
\* woken just before the timer is due, when it is due, or later.
TimeAdvances ==
    /\ Awaiting("wait")
    /\ clock.due # NoTimer
    /\ clock.now < clock.due
    /\ \E t \in {clock.due - 1, clock.due, clock.due + 1} :
          /\ t > clock.now
          /\ clock' = [clock EXCEPT !.now = t]
    /\ UNCHANGED <<doc, validate, host, server, raised, markers, replay, phase, wfs, loadErr, runVars, forkVars, listenVars, callVars>>

\* workflow.Sleep returns: nil once the timer has fired, or an error (the
\* context was cancelled) at any time.
SleepReturn ==
    /\ Awaiting("wait")
    /\ \E ok \in BOOLEAN :
          /\ ok => clock.now >= clock.due
          /\ clock' = [clock EXCEPT !.due = NoTimer,
                                    !.slept = Append(@, [pos |-> idx, ok |-> ok,
                                                         from |-> clock.from,
                                                         until |-> clock.now])]
          /\ Returns(IF ok THEN Nil ELSE <<"error sleeping", Unit.Key>>)
    /\ UNCHANGED <<doc, validate, host, server, raised, markers, replay, wfs, loadErr, vars, output, effects, invoked, forkVars, listenVars, callVars>>

(***************************************************************************)
(* raiseTaskImpl: the title is evaluated twice, the error is built by the  *)
(* function of its type or is the definition itself.                       *)
(***************************************************************************)
\* expr.TraverseAndEvaluateObj followed by fmt.Sprintf("%v", ...): a plain
\* string evaluates to itself, an expression to what it selects in the data.
Evaluate(text, data) ==
    IF text = TitleExpr
    THEN (IF "name" \in DOMAIN data /\ data["name"] # NilValue
          THEN data["name"][2] ELSE "<nil>")
    ELSE text

\* The texts whose evaluation can fail: the runtime expressions.
CanFail(text) == text = TitleExpr

raiseErrFuncMapping == {ErrorTypeValidation, ErrorTypeTimeout, TemporalErrMapping}

\* What a call returned: "nil" (a nil *model.Error), "failed" (an evaluation
\* error, in text), "panic", or "error" (the model.Error in err).
Raised(outcome, err, text, definition, data) ==
    [outcome |-> outcome, err |-> err, text |-> text, definition |-> definition,
     data |-> data]

\* `if detail := definition.Title; detail != nil`: what detailResult is
\* evaluated from.
DetailSource(definition) == definition.Title

\* raiseTaskImpl's function on a definition that is not nil and whose
\* evaluations succeed: [raiseErr, definition] as they are when it returns.
raiseTaskImpl(definition, data) ==
    LET detailResult == IF DetailSource(definition) # Unset
                        THEN Evaluate(DetailSource(definition), data) ELSE ""
        titleResult == IF definition.Title # Unset
                       THEN Evaluate(definition.Title, data) ELSE ""
        built == [Type |-> definition.Type, Title |-> Unset, Detail |-> detailResult,
                  Status |-> 0, Instance |-> InstanceID]
        passed == [definition EXCEPT !.Detail = detailResult, !.Instance = InstanceID]
        raiseErr == IF definition.Type \in raiseErrFuncMapping THEN built ELSE passed
        final == [raiseErr EXCEPT !.Title = titleResult, !.Status = definition.Status]
    IN  [raiseErr |-> final,
         definition |-> IF definition.Type \in raiseErrFuncMapping THEN definition
                        ELSE final]

\* The function raiseTaskImpl builds for the Raise task at position p of the
\* document is called with the data of the sequence.
InvokeRaise(p) ==
    /\ Running
    /\ cur = "idle"
    /\ Len(raised) < MaxRaises
    /\ p \in 1..Len(doc)
    /\ doc[p].kind = "raise"
    /\ IF doc[p].raise = NoDefinition
       THEN /\ raised' = Append(raised, Raised("nil", <<>>, <<>>, NoDefinition, vars))
            /\ doc' = doc
       ELSE LET definition == doc[p].raise[1]
                r == raiseTaskImpl(definition, vars)
            IN  \E ok \in BOOLEAN :
                  IF ~ok
                  THEN /\ definition.Title # Unset /\ CanFail(definition.Title)
                       /\ raised' = Append(raised,
                              Raised("failed", <<>>, <<"error finding error definition">>,
                                     <<definition>>, vars))
                       /\ doc' = doc
                  ELSE IF definition.Type = TemporalErrMapping
                  THEN /\ raised' = Append(raised,
                              Raised("panic", <<>>, <<InstanceID>>, <<definition>>, vars))
                       /\ doc' = doc
                  ELSE /\ raised' = Append(raised,
                              Raised("error", <<r.raiseErr>>, <<>>, <<definition>>, vars))
                       /\ doc' = [doc EXCEPT ![p].raise = <<r.definition>>]
    /\ UNCHANGED <<validate, host, server, markers, replay, clock, phase, wfs, loadErr,
                   runVars, forkVars, listenVars, callVars>>

(***************************************************************************)
(* listenTaskImpl: the registration loop, the handlers it registers and    *)
(* waitForListener.                                                        *)
(***************************************************************************)
\* Update attempts the environment makes on a Listen unit of n filters.
MaxAttempts(n) == n + 1

\* The `accept` entry an update's arguments carry.
UpdateArgs == {"true", "false"}

\* Variables.AddData: the arguments are merged into vars.Data.
AddData(data, accept) == Put(data, "accept", Str(accept))

SlicesEqual(s, v) == \A r \in 1..Len(s) : s[r] = v

TimeoutError == <<"TimeoutError", "ScheduleToStart">>

\* The closure's first statements: isAllComplete, isAnyComplete, await.
InvokeListen ==
    /\ AtUnit("listen")
    /\ invoked' = Append(invoked, idx)
    /\ lsn' = [NoListen EXCEPT !.pos = idx,
                               !.events = listenConfigure(Unit.Task.item).events,
                               !.isAll = listenConfigure(Unit.Task.item).isAll]
    /\ Suspends("register")
    /\ UNCHANGED <<doc, validate, host, server, raised, markers, replay, clock, wfs, loadErr, vars, output, effects, forkVars, callVars>>

\* The Listen unit returns err to the executor's loop.
ListenReturns(l, err) ==
    /\ lsn' = [l EXCEPT !.ret = [done |-> TRUE, err |-> err, fired |-> l.fired]]
    /\ Returns(err)

\* One iteration of `for i, event := range events`.
ListenRegister ==
    /\ Running
    /\ cur = "register"
    /\ lsn.i <= Len(lsn.events)
    /\ LET event == lsn.events[lsn.i]
           l == [lsn EXCEPT !.isAllComplete = IF lsn.isAll THEN Append(@, FALSE) ELSE @]
       IN  CASE event.type = ListenTaskTypeQuery ->
                  /\ lsn' = [l EXCEPT !.handlers = @ \cup {lsn.i}, !.i = @ + 1]
                  /\ effects' = effects \cup {Effect(<<Unit.Key, event.id>>, "query handler")}
                  /\ UNCHANGED cur
             [] event.type = ListenTaskTypeSignal ->
                  /\ lsn' = l
                  /\ effects' = effects \cup {Effect(<<Unit.Key, event.id>>, "signal channel")}
                  /\ cur' = "signal"
             [] event.type = ListenTaskTypeUpdate ->
                  /\ lsn' = [l EXCEPT !.await = TRUE, !.handlers = @ \cup {lsn.i}, !.i = @ + 1]
                  /\ effects' = effects \cup {Effect(<<Unit.Key, event.id>>, "update handler")}
                  /\ UNCHANGED cur
    /\ UNCHANGED <<doc, validate, host, server, raised, markers, replay, clock, phase, wfs, loadErr, idx, vars, output, invoked,
                   returned, result, forkVars, callVars>>

\* configureSignalListener: Receive returns, or ReceiveWithTimeout gives up.
ListenSignal ==
    /\ Running
    /\ cur = "signal"
    /\ \E received \in BOOLEAN :
          IF received
          THEN /\ lsn' = [lsn EXCEPT !.fired = @ \cup {lsn.i}, !.i = @ + 1]
               /\ cur' = "register"
               /\ UNCHANGED <<phase, idx, returned, result>>
          ELSE /\ lsn.events[lsn.i].timeout
               /\ ListenReturns(lsn, <<"error setting signal",
                                       "signal not received within timeout">>)
    /\ UNCHANGED <<doc, validate, host, server, raised, markers, replay, clock, wfs, loadErr, vars, output, effects, invoked, forkVars, callVars>>

\* waitForListener(ctx, timeout, isAll, isAnyComplete, isAllComplete): the
\* bool is copied into the parameter, the slice shares its elements.
PassByValue(l) == l.waitAny

\* `if await { waitForListener(...) }; return nil` once the loop is over.
ListenRegistered ==
    /\ Running
    /\ cur = "register"
    /\ lsn.i > Len(lsn.events)
    /\ IF lsn.await
       THEN /\ lsn' = [lsn EXCEPT !.waitAny = lsn.isAnyComplete]
            /\ Suspends("await")
       ELSE ListenReturns(lsn, Nil)
    /\ UNCHANGED <<doc, validate, host, server, raised, markers, replay, clock, wfs, loadErr, vars, output, effects, invoked, forkVars, callVars>>

\* The function AwaitWithTimeout evaluates.
ListenPredicate(l) ==
    IF l.isAll THEN SlicesEqual(l.isAllComplete, TRUE) ELSE PassByValue(l)

\* waitForListener: the predicate holds, or the hour elapses first.
ListenReturn ==
    /\ Awaiting("listen")
    /\ ListenReturns(lsn, IF ListenPredicate(lsn) THEN Nil ELSE TimeoutError)
    /\ UNCHANGED <<doc, validate, host, server, raised, markers, replay, clock, wfs, loadErr, vars, output, effects, invoked, forkVars, callVars>>

\* The Listen unit is blocked on a host primitive (Receive, AwaitWithTimeout):
\* its handlers may be dispatched. Events are sent while the unit is in progress.
Yielded == Running /\ idx = lsn.pos /\ cur \in {"signal", "await"}

MarkBeforeGuard(l, e, conditional) == TRUE

\* The update handler's test of the `if` additional property.
GuardPasses(l, e, conditional) ==
    l.events[e].if = NoIf \/ conditional = <<"true">>

\* onSuccess: the closure registered for event e.
onSuccess(l, e) ==
    IF l.isAll
    THEN [l EXCEPT !.isAllComplete[e] = TRUE]
    ELSE [l EXCEPT !.isAnyComplete = TRUE]

\* An update for event e arrives: the validator merges its arguments, the
\* handler evaluates the `if` and calls onSuccess when it passes.
UpdateArrives(e, accept) ==
    /\ Yielded
    /\ e \in lsn.handlers
    /\ lsn.events[e].type = ListenTaskTypeUpdate
    /\ lsn.attempts < MaxAttempts(Len(lsn.events))
    /\ vars' = AddData(vars, accept)
    /\ LET conditional == IF lsn.events[e].if = NoIf THEN <<>>
                          ELSE ParseVariables(lsn.events[e].if, vars', NoHelper)
           l == [lsn EXCEPT !.attempts = @ + 1,
                            !.last = [event |-> e, conditional |-> conditional,
                                      guarded |-> lsn.events[e].if # NoIf,
                                      EventComplete |-> GuardPasses(lsn, e, conditional)]]
       IN  lsn' = IF GuardPasses(lsn, e, conditional)
                  THEN [onSuccess(l, e) EXCEPT !.fired = @ \cup {e}]
                  ELSE [l EXCEPT !.rejected = @ + 1]
    /\ UNCHANGED <<doc, validate, host, server, raised, markers, replay, clock, phase, wfs, loadErr, idx, cur, output, effects,
                   invoked, returned, result, forkVars, callVars>>

\* A query for event e is answered by its handler, which stays registered
\* for as long as the workflow runs.
QueryArrives(e) ==
    /\ Running
    /\ e \in lsn.handlers
    /\ lsn.events[e].type = ListenTaskTypeQuery
    /\ e \notin lsn.fired
    /\ lsn' = [lsn EXCEPT !.fired = @ \cup {e}]
    /\ UNCHANGED <<doc, validate, host, server, raised, markers, replay, clock, phase, wfs, loadErr, runVars, forkVars, callVars>>

(***************************************************************************)
(* forkTaskImpl: one coroutine per task of every workflow built from the   *)
(* branches, a WaitGroup to join them and a buffered channel of errors.    *)
(***************************************************************************)
RECURSIVE FlattenTasks(_)
FlattenTasks(ws) ==
    IF ws = <<>> THEN <<>> ELSE Head(ws).Tasks \o FlattenTasks(Tail(ws))

ErrsCapUnbuffered(children) == 0

\* n := len(temporalWorkflows); for each: n += len(t.Tasks); make(chan error, n)
ErrsCap(children) == Len(children) + Len(FlattenTasks(children))

\* The flag as the closure reads it, for its debug log.
isCompeting == Unit.Task.item.compete

JoinOnFirstError == wg = 0 \/ errs.buf # <<>>

JoinOnFirstDone == IF isCompeting THEN wg < Len(br) \/ wg = 0 ELSE wg = 0

\* wg.Wait() returns once every coroutine has called wg.Done().
JoinReady == wg = 0

InvokeFork ==
    /\ AtUnit("fork")
    /\ invoked' = Append(invoked, idx)
    /\ LET ts == FlattenTasks(Unit.Task.children)
       IN  /\ br' = [j \in 1..Len(ts) |->
                        [fork |-> Unit.Key, key |-> ts[j].Key, kind |-> ts[j].Task.kind,
                         item |-> ts[j].Task.item, pc |-> "ready", o |-> EmptyMap,
                         err |-> Nil]]
           /\ wg' = Len(ts)
           /\ effects' = effects \cup {Effect(<<Unit.Key, ts[j].Key>>, "go") : j \in 1..Len(ts)}
    /\ errs' = [cap |-> ErrsCap(Unit.Task.children), buf |-> <<>>]
    /\ forkRet' = NoFork
    /\ varsAtFork' = vars
    /\ Suspends("join")
    /\ UNCHANGED <<doc, validate, host, server, raised, markers, replay, clock, wfs, loadErr, vars, output, listenVars, callVars>>

\* The coroutine's `future, err := wf.Task(ctx, data, o)`: data is the caller's.
BranchTask(j) ==
    /\ j \in 1..Len(br)
    /\ br[j].pc = "ready"
    /\ \E ok \in BOOLEAN :
          CASE br[j].kind = "set" ->
                 IF ok
                 THEN /\ LET set == br[j].item.set
                                 st == SetLoop(set, [k \in 1..Len(set) |-> k], 1, Len(set),
                                               SetState(vars, markers, Len(markers) + 1),
                                               [k \in 1..Len(set) |-> NoHelper], FALSE)
                             IN  vars' = st.data /\ markers' = st.markers
                      /\ effects' = effects \cup {Effect(<<br[j].fork, br[j].key>>, "ctx")}
                      /\ br' = [br EXCEPT ![j].pc = "done"]
                      /\ wg' = wg - 1
                 ELSE /\ br' = [br EXCEPT ![j].pc = "sending",
                                          ![j].err = <<"unable to generate side effect value", br[j].key>>]
                      /\ UNCHANGED <<vars, markers, effects, wg>>
            [] br[j].kind = "http" ->
                 IF ~CheckIfStatement(br[j].item)
                 THEN /\ ok
                      /\ br' = [br EXCEPT ![j].pc = "done"]
                      /\ wg' = wg - 1
                      /\ UNCHANGED <<vars, markers, effects>>
                 ELSE IF ok
                 THEN /\ br' = [br EXCEPT ![j].pc = "future"]
                      /\ effects' = effects \cup {Effect(<<br[j].fork, br[j].key>>, "activity")}
                      /\ UNCHANGED <<vars, markers, wg>>
                 ELSE /\ br' = [br EXCEPT ![j].pc = "sending",
                                          ![j].err = <<"error handling task", br[j].key>>]
                      /\ UNCHANGED <<vars, markers, effects, wg>>
    /\ UNCHANGED <<doc, validate, host, server, raised, replay, clock, phase, wfs, loadErr, idx, cur, output, invoked,
                   returned, result, errs, forkRet, varsAtFork, listenVars, callVars>>

\* The coroutine's `future.Output(o)`: the result lands in the coroutine's own map.
BranchOutput(j) ==
    /\ j \in 1..Len(br)
    /\ br[j].pc = "future"
    /\ \E ok \in BOOLEAN :
          IF ok
          THEN /\ br' = [br EXCEPT ![j].pc = "done",
                                   ![j].o = Put(br[j].o, <<br[j].key>>, "CallHTTPResult")]
               /\ wg' = wg - 1
          ELSE /\ br' = [br EXCEPT ![j].pc = "sending",
                                   ![j].err = <<"error calling http task", br[j].key>>]
               /\ wg' = wg
    /\ UNCHANGED <<doc, validate, host, server, raised, markers, replay, clock, phase, wfs, loadErr, runVars, errs, forkRet, varsAtFork, listenVars, callVars>>

\* The coroutine's `errs <- err; return`: blocks while the channel is full.
BranchSend(j) ==
    /\ j \in 1..Len(br)
    /\ br[j].pc = "sending"
    /\ Len(errs.buf) < errs.cap
    /\ errs' = [errs EXCEPT !.buf = Append(@, br[j].err)]
    /\ br' = [br EXCEPT ![j].pc = "done"]
    /\ wg' = wg - 1
    /\ UNCHANGED <<doc, validate, host, server, raised, markers, replay, clock, phase, wfs, loadErr, runVars, forkRet, varsAtFork, listenVars, callVars>>

\* wg.Wait() has returned: the select takes one error if there is one.
ForkJoin ==
    /\ Running
    /\ cur = "join"
    /\ JoinReady
    /\ LET err == IF errs.buf # <<>> THEN Head(errs.buf) ELSE Nil
       IN  /\ forkRet' = [pos |-> idx, key |-> Unit.Key, err |-> err]
           /\ Returns(err)
    /\ errs' = [errs EXCEPT !.buf = IF @ # <<>> THEN Tail(@) ELSE @]
    /\ UNCHANGED <<doc, validate, host, server, raised, markers, replay, clock, wfs, loadErr, vars, output, effects, invoked,
                   br, wg, varsAtFork, listenVars, callVars>>

Next ==
    \/ RunValidate
    \/ RunBuild
    \/ StartWorkflow
    \/ InvokeSet
    \/ InvokeHTTP
    \/ \E response \in Statuses \cup {NoResponse} : HTTPAttempt(response)
    \/ HTTPReturn
    \/ InvokeWait
    \/ TimeAdvances
    \/ SleepReturn
    \/ InvokeListen
    \/ ListenRegister
    \/ ListenSignal
    \/ ListenRegistered
    \/ ListenReturn
    \/ \E e \in 1..MaxEvents : \E accept \in UpdateArgs : UpdateArrives(e, accept)
    \/ \E e \in 1..MaxEvents : QueryArrives(e)
    \/ InvokeFork
    \/ \E j \in 1..MaxBranches : BranchTask(j)
    \/ \E j \in 1..MaxBranches : BranchOutput(j)
    \/ \E j \in 1..MaxBranches : BranchSend(j)
    \/ ForkJoin
    \/ WorkflowReturn

Spec == Init /\ [][Next]_vars_all

(***************************************************************************)
(* The Listen state machine on its own: documents that start with a Listen *)
(* task, built without Validate (which refuses every Listen task).         *)
(***************************************************************************)
InitListen ==
    /\ doc \in ListenDocs
    /\ validate = FALSE
    /\ phase = "loaded"
    /\ wfs = <<>>
    /\ loadErr = Nil
    /\ idx = 1
    /\ cur = "idle"
    /\ vars = EmptyMap
    /\ output = EmptyMap
    /\ effects = {}
    /\ invoked = <<>>
    /\ returned = <<>>
    /\ result = NoResult
    /\ br = <<>>
    /\ errs = [cap |-> 0, buf |-> <<>>]
    /\ wg = 0
    /\ forkRet = NoFork
    /\ varsAtFork = EmptyMap
    /\ lsn = NoListen
    /\ act = NoActivity
    /\ server = {200, 404}
    /\ clock = NoClock
    /\ markers = <<>>
    /\ replay = NoReplay
    /\ raised = <<>>
    /\ host = DefaultHost

NextListen ==
    \/ RunValidate
    \/ RunBuild
    \/ StartWorkflow
    \/ InvokeSet
    \/ InvokeListen
    \/ ListenRegister
    \/ ListenSignal
    \/ ListenRegistered
    \/ ListenReturn
    \/ \E e \in 1..MaxEvents : \E accept \in UpdateArgs : UpdateArrives(e, accept)
    \/ \E e \in 1..MaxEvents : QueryArrives(e)
    \/ WorkflowReturn

SpecListen == InitListen /\ [][NextListen]_vars_all

(***************************************************************************)
(* Set and CallHTTP on their own, against a server that may answer with    *)
(* any of the statuses explored.                                           *)
(***************************************************************************)
InitCall ==
    /\ doc \in CallDocs
    /\ validate \in BOOLEAN
    /\ phase = "loaded"
    /\ wfs = <<>>
    /\ loadErr = Nil
    /\ idx = 1
    /\ cur = "idle"
    /\ vars = EmptyMap
    /\ output = EmptyMap
    /\ effects = {}
    /\ invoked = <<>>
    /\ returned = <<>>
    /\ result = NoResult
    /\ br = <<>>
    /\ errs = [cap |-> 0, buf |-> <<>>]
    /\ wg = 0
    /\ forkRet = NoFork
    /\ varsAtFork = EmptyMap
    /\ lsn = NoListen
    /\ act = NoActivity
    /\ server = Statuses \cup {NoResponse}
    /\ clock = NoClock
    /\ markers = <<>>
    /\ replay = NoReplay
    /\ raised = <<>>
    /\ host = DefaultHost

NextCall ==
    \/ RunValidate
    \/ RunBuild
    \/ StartWorkflow
    \/ InvokeSet
    \/ InvokeHTTP
    \/ \E response \in Statuses \cup {NoResponse} : HTTPAttempt(response)
    \/ HTTPReturn
    \/ WorkflowReturn

SpecCall == InitCall /\ [][NextCall]_vars_all

(***************************************************************************)
(* Wait on its own: documents that start with a Wait of any of the         *)
(* durations explored.                                                     *)
(***************************************************************************)
InitWait ==
    /\ doc \in WaitDocs
    /\ validate \in BOOLEAN
    /\ phase = "loaded"
    /\ wfs = <<>>
    /\ loadErr = Nil
    /\ idx = 1
    /\ cur = "idle"
    /\ vars = EmptyMap
    /\ output = EmptyMap
    /\ effects = {}
    /\ invoked = <<>>
    /\ returned = <<>>
    /\ result = NoResult
    /\ br = <<>>
    /\ errs = [cap |-> 0, buf |-> <<>>]
    /\ wg = 0
    /\ forkRet = NoFork
    /\ varsAtFork = EmptyMap
    /\ lsn = NoListen
    /\ act = NoActivity
    /\ server = {200, 404}
    /\ clock = NoClock
    /\ markers = <<>>
    /\ replay = NoReplay
    /\ raised = <<>>
    /\ host = DefaultHost

NextWait ==
    \/ RunValidate
    \/ RunBuild
    \/ StartWorkflow
    \/ InvokeSet
    \/ InvokeWait
    \/ TimeAdvances
    \/ SleepReturn
    \/ WorkflowReturn

SpecWait == InitWait /\ [][NextWait]_vars_all

(***************************************************************************)
(* Set on its own: documents of Set tasks of one or two entries, run and   *)
(* then replayed from the history.                                         *)
(***************************************************************************)
InitSet ==
    /\ doc \in SetDocs
    /\ validate \in BOOLEAN
    /\ phase = "loaded"
    /\ wfs = <<>>
    /\ loadErr = Nil
    /\ idx = 1
    /\ cur = "idle"
    /\ vars = EmptyMap
    /\ output = EmptyMap
    /\ effects = {}
    /\ invoked = <<>>
    /\ returned = <<>>
    /\ result = NoResult
    /\ br = <<>>
    /\ errs = [cap |-> 0, buf |-> <<>>]
    /\ wg = 0
    /\ forkRet = NoFork
    /\ varsAtFork = EmptyMap
    /\ lsn = NoListen
    /\ act = NoActivity
    /\ server = {200, 404}
    /\ clock = NoClock
    /\ markers = <<>>
    /\ replay = NoReplay
    /\ raised = <<>>
    /\ host = DefaultHost

NextSet ==
    \/ RunValidate
    \/ RunBuild
    \/ StartWorkflow
    \/ InvokeSet
    \/ WorkflowReturn
    \/ ReplaySet

SpecSet == InitSet /\ [][NextSet]_vars_all

(***************************************************************************)
(* Task lists that declare the same name more than once.                   *)
(***************************************************************************)
InitKeys ==
    /\ doc \in KeyDocs
    /\ validate \in BOOLEAN
    /\ phase = "loaded"
    /\ wfs = <<>>
    /\ loadErr = Nil
    /\ idx = 1
    /\ cur = "idle"
    /\ vars = EmptyMap
    /\ output = EmptyMap
    /\ effects = {}
    /\ invoked = <<>>
    /\ returned = <<>>
    /\ result = NoResult
    /\ br = <<>>
    /\ errs = [cap |-> 0, buf |-> <<>>]
    /\ wg = 0
    /\ forkRet = NoFork
    /\ varsAtFork = EmptyMap
    /\ lsn = NoListen
    /\ act = NoActivity
    /\ server = {200, 404}
    /\ clock = NoClock
    /\ markers = <<>>
    /\ replay = NoReplay
    /\ raised = <<>>
    /\ host = DefaultHost

SpecKeys == InitKeys /\ [][NextCall]_vars_all

(***************************************************************************)
(* Guarded CallHTTP tasks: every `if` expression explored.                 *)
(***************************************************************************)
InitGuard ==
    /\ doc \in GuardDocs
    /\ validate \in BOOLEAN
    /\ phase = "loaded"
    /\ wfs = <<>>
    /\ loadErr = Nil
    /\ idx = 1
    /\ cur = "idle"
    /\ vars = EmptyMap
    /\ output = EmptyMap
    /\ effects = {}
    /\ invoked = <<>>
    /\ returned = <<>>
    /\ result = NoResult
    /\ br = <<>>
    /\ errs = [cap |-> 0, buf |-> <<>>]
    /\ wg = 0
    /\ forkRet = NoFork
    /\ varsAtFork = EmptyMap
    /\ lsn = NoListen
    /\ act = NoActivity
    /\ server = {200, 404}
    /\ clock = NoClock
    /\ markers = <<>>
    /\ replay = NoReplay
    /\ raised = <<>>
    /\ host = DefaultHost

SpecGuard == InitGuard /\ [][NextCall]_vars_all

(***************************************************************************)
(* The seeding of the context: every flag, environment and input explored. *)
(***************************************************************************)
InitSeed ==
    /\ doc \in SeedDocs
    /\ validate = FALSE
    /\ phase = "loaded"
    /\ wfs = <<>>
    /\ loadErr = Nil
    /\ idx = 1
    /\ cur = "idle"
    /\ vars = EmptyMap
    /\ output = EmptyMap
    /\ effects = {}
    /\ invoked = <<>>
    /\ returned = <<>>
    /\ result = NoResult
    /\ br = <<>>
    /\ errs = [cap |-> 0, buf |-> <<>>]
    /\ wg = 0
    /\ forkRet = NoFork
    /\ varsAtFork = EmptyMap
    /\ lsn = NoListen
    /\ act = NoActivity
    /\ server = {200}
    /\ clock = NoClock
    /\ markers = <<>>
    /\ replay = NoReplay
    /\ raised = <<>>
    /\ host \in Hosts

SpecSeed == InitSeed /\ [][NextCall]_vars_all

(***************************************************************************)
(* Raise on its own: the function raiseTaskImpl builds, called on the      *)
(* Raise task of the document as a builder that wired it in would call it  *)
(* (Validate refuses every Raise task, workflowBuilder leaves it out).     *)
(***************************************************************************)
InitRaise ==
    /\ doc \in RaiseDocs
    /\ validate = FALSE
    /\ phase = "loaded"
    /\ wfs = <<>>
    /\ loadErr = Nil
    /\ idx = 1
    /\ cur = "idle"
    /\ vars = EmptyMap
    /\ output = EmptyMap
    /\ effects = {}
    /\ invoked = <<>>
    /\ returned = <<>>
    /\ result = NoResult
    /\ br = <<>>
    /\ errs = [cap |-> 0, buf |-> <<>>]
    /\ wg = 0
    /\ forkRet = NoFork
    /\ varsAtFork = EmptyMap
    /\ lsn = NoListen
    /\ act = NoActivity
    /\ server = {200, 404}
    /\ clock = NoClock
    /\ markers = <<>>
    /\ replay = NoReplay
    /\ raised = <<>>
    /\ host = DefaultHost

NextRaise ==
    \/ RunValidate
    \/ RunBuild
    \/ StartWorkflow
    \/ InvokeSet
    \/ \E p \in 1..MaxTasks : InvokeRaise(p)
    \/ WorkflowReturn

SpecRaise == InitRaise /\ [][NextRaise]_vars_all

(***************************************************************************)
(* Fork on its own: a Fork task with fork.compete set and unset, built     *)
(* without Validate (which refuses every Fork task).                       *)
(***************************************************************************)
InitFork ==
    /\ doc \in ForkDocs
    /\ validate = FALSE
    /\ phase = "loaded"
    /\ wfs = <<>>
    /\ loadErr = Nil
    /\ idx = 1
    /\ cur = "idle"
    /\ vars = EmptyMap
    /\ output = EmptyMap
    /\ effects = {}
    /\ invoked = <<>>
    /\ returned = <<>>
    /\ result = NoResult
    /\ br = <<>>
    /\ errs = [cap |-> 0, buf |-> <<>>]
    /\ wg = 0
    /\ forkRet = NoFork
    /\ varsAtFork = EmptyMap
    /\ lsn = NoListen
    /\ act = NoActivity
    /\ server = {200}
    /\ clock = NoClock
    /\ markers = <<>>
    /\ replay = NoReplay
    /\ raised = <<>>
    /\ host = DefaultHost

NextFork ==
    \/ RunValidate
    \/ RunBuild
    \/ StartWorkflow
    \/ InvokeSet
    \/ InvokeFork
    \/ \E j \in 1..MaxBranches : BranchTask(j)
    \/ \E j \in 1..MaxBranches : BranchOutput(j)
    \/ \E j \in 1..MaxBranches : BranchSend(j)
    \/ ForkJoin
    \/ WorkflowReturn

SpecFork == InitFork /\ [][NextFork]_vars_all

(***************************************************************************)
(* Vocabulary of the properties.                                           *)
(***************************************************************************)
\* The task kinds the specification lists as supported.
SupportedKinds == {"set", "wait", "http", "fork", "listen", "raise", "do"}

RECURSIVE HasUnsupported(_)
HasUnsupported(items) ==
    \E i \in 1..Len(items) :
        items[i].kind \notin SupportedKinds \/ HasUnsupported(items[i].sub)

RECURSIVE DeclaredLeaves(_)
DeclaredLeaves(items) ==
    IF items = <<>> THEN 0
    ELSE (IF Head(items).sub = <<>> THEN 1 ELSE DeclaredLeaves(Head(items).sub))
         + DeclaredLeaves(Tail(items))

RECURSIVE UnitLeaves(_)
RECURSIVE UnitLeavesOf(_)
UnitLeavesOf(units) ==
    IF units = <<>> THEN 0
    ELSE (IF Head(units).Task.kind = "fork"
          THEN UnitLeaves(Head(units).Task.children)
          ELSE 1)
         + UnitLeavesOf(Tail(units))
UnitLeaves(ws) ==
    IF ws = <<>> THEN 0 ELSE UnitLeavesOf(Head(ws).Tasks) + UnitLeaves(Tail(ws))

PosInDoc(key) == CHOOSE i \in 1..Len(doc) : doc[i].key = key

NamespacedKey(forkKey, branchKey) == <<forkKey, "_", branchKey>>

ForkEntries(forkKey) == {k \in DOMAIN output : Len(k) = 3 /\ k[1] = forkKey /\ k[2] = "_"}

\* The last Fork unit has returned and the executor has not moved past it.
JustAfterFork ==
    /\ forkRet.pos # 0
    /\ Len(invoked) = forkRet.pos
    /\ Len(returned) = forkRet.pos

FailedBranches == {j \in 1..Len(br) : br[j].err # Nil}

(***************************************************************************)
(* C1..C10                                                                 *)
(***************************************************************************)

\* C1: when a unit of the sequence returns an error the executor stops there
\* and returns that error: no unit at a later position is ever invoked.
C1_FailFast ==
    \A k \in 1..Len(returned) :
        returned[k].err # Nil =>
            /\ \A m \in 1..Len(invoked) : invoked[m] <= returned[k].pos
            /\ phase = "failed"
            /\ result.returned /\ result.outNil
            /\ result.err = returned[k].err

\* C1 witness: a unit failed while a later unit was still waiting to run.
C1_Witness ==
    /\ phase = "failed"
    /\ Len(returned) >= 1
    /\ returned[Len(returned)].err # Nil
    /\ returned[Len(returned)].pos < Len(RootTasks)

\* C2: the builder emits the units in the order of the task list, the executor
\* invokes them in that order, and unit i+1 is invoked only after unit i has
\* returned, so that at most one unit of the sequence is in progress.
C2_DocumentOrder ==
    /\ \A a, b \in 1..Len(RootTasks) :
          a < b => PosInDoc(RootTasks[a].Key) < PosInDoc(RootTasks[b].Key)
    /\ \A k \in 1..Len(invoked) : invoked[k] = k
    /\ Len(returned) <= Len(invoked)
    /\ Len(invoked) <= Len(returned) + 1
    /\ \A k \in 1..Len(returned) : returned[k].pos = invoked[k]

\* C2 witness: the second unit is in progress after the first has returned.
C2_Witness ==
    /\ Len(RootTasks) >= 2
    /\ Len(invoked) = 2
    /\ Len(returned) = 1
    /\ cur = "await"

\* C3 (as claimed): a unit of any kind whose guard evaluates false writes no
\* OutputMap entry, writes nothing to the context and uses no host primitive.
C3_GuardFalseSkips ==
    \A m \in 1..Len(invoked) :
        LET u == RootTasks[invoked[m]]
        IN  ~CheckIfStatement(u.Task.item) =>
                /\ <<u.Key>> \notin DOMAIN output
                /\ u.Key \notin DOMAIN vars
                /\ \A e \in effects : e.key[1] # u.Key

\* C4 (as claimed): a build of a document holding an unsupported kind fails with
\* ErrUnsupportedTask, and a build that succeeds has one executable unit for
\* every declared task.
C4_BuildFailsOrKeepsAll ==
    phase \notin {"loaded", "validated", "invalid"} =>
        IF HasUnsupported(doc)
        THEN /\ phase = "buildfail"
             /\ loadErr # Nil
             /\ \E k \in 1..Len(loadErr) : loadErr[k] = ErrUnsupportedTask[1]
        ELSE phase # "buildfail" => UnitLeaves(wfs) = DeclaredLeaves(doc)

\* C5 (as claimed): Validate rejects every document holding an unsupported kind,
\* at the top level or nested, before anything is built or run.
C5_ValidateRejectsUnsupported ==
    /\ (validate /\ HasUnsupported(doc) /\ phase # "loaded") => phase = "invalid"
    /\ phase = "invalid" => (wfs = <<>> /\ invoked = <<>>)

\* C6 (as claimed): Validate accepts every document whose tasks are all of the
\* supported kinds.
C6_ValidateAcceptsSupported ==
    (validate /\ ~HasUnsupported(doc)) => phase # "invalid"

\* C7 (as claimed): a Set run by a Fork branch is visible neither to a sibling
\* branch nor to the parent: a branch that has not started yet still sees the
\* context as it was at the Fork, and so does the parent after the Fork.
C7_BranchContextIsolated ==
    /\ JustAfterFork => vars = varsAtFork
    /\ \A j \in 1..Len(br) :
          (cur = "join" /\ br[j].pc = "ready") => vars = varsAtFork

\* C8 (as claimed, on Forks of CallHTTP branches): after the join the parent
\* OutputMap holds exactly one entry {forkTaskId}_{branchTaskId} per branch when
\* all branches succeeded, and none when a branch failed.
C8_ForkOutputsMerged ==
    (JustAfterFork /\ \A j \in 1..Len(br) : br[j].kind = "http") =>
        ForkEntries(forkRet.key) =
            IF forkRet.err = Nil
            THEN {NamespacedKey(forkRet.key, br[j].key) : j \in 1..Len(br)}
            ELSE {}

\* C9: a Fork unit has returned only if every coroutine it started has finished.
C9_JoinWaitsForAll ==
    forkRet.pos # 0 => \A j \in 1..Len(br) : br[j].pc = "done"

\* C9 witness: a Fork returned an error, and a sibling of the failed branch
\* had run to completion and recorded its result.
C9_Witness ==
    /\ forkRet.pos # 0
    /\ forkRet.err # Nil
    /\ \E j \in 1..Len(br) : br[j].err = Nil /\ br[j].o # EmptyMap

\* C10: a Fork returns an error exactly when a branch failed, the error is
\* that of a failed branch, every failed branch's error reached the channel,
\* and a branch reporting its error never finds the channel full.
C10_ForkErrorIffBranchFailed ==
    /\ \A j \in 1..Len(br) : br[j].pc = "sending" => Len(errs.buf) < errs.cap
    /\ forkRet.pos # 0 =>
          /\ (forkRet.err # Nil) <=> (FailedBranches # {})
          /\ forkRet.err # Nil => \E j \in FailedBranches : br[j].err = forkRet.err
          /\ Len(errs.buf) + (IF forkRet.err # Nil THEN 1 ELSE 0)
                = Cardinality(FailedBranches)
          /\ \A j \in FailedBranches :
                br[j].err = forkRet.err
                \/ \E k \in 1..Len(errs.buf) : errs.buf[k] = br[j].err

\* C10 witness: a Fork returned after two of its branches had failed.
C10_Witness ==
    /\ forkRet.pos # 0
    /\ forkRet.err # Nil
    /\ Cardinality(FailedBranches) >= 2

(***************************************************************************)
(* Vocabulary of the Listen properties: the handlers that have fired (an   *)
(* update accepted, a query answered, a signal received) against the       *)
(* combination mode of the task.                                           *)
(***************************************************************************)
ListenItem == RootTasks[lsn.pos].Task.item

AllFired(fired) == \A e \in 1..Len(lsn.events) : e \in fired

\* The completion predicate of the specification, by combination mode.
ModeSatisfied(fired) ==
    IF ListenItem.to = "all" THEN AllFired(fired) ELSE fired # {}

\* The Listen unit is in progress and the executor is still at it.
ListenInProgress ==
    /\ lsn.pos # 0
    /\ ~lsn.ret.done
    /\ phase = "running"
    /\ idx = lsn.pos
    /\ cur \in {"register", "signal", "await"}

ListenSucceeded == lsn.pos # 0 /\ lsn.ret.done /\ lsn.ret.err = Nil

\* C11 (as claimed): a Listen with mode `all` is satisfied only once every one
\* of its N handlers has fired; while fewer have fired it is still suspended
\* and the sequence has not advanced.
C11_AllNeedsEveryHandler ==
    (lsn.pos # 0 /\ ListenItem.to = "all") =>
        /\ ListenSucceeded => AllFired(lsn.ret.fired)
        /\ (~lsn.ret.done /\ ~AllFired(lsn.fired)) => ListenInProgress

\* C12 (as claimed): with mode `one` or `any`, once a handler has fired the
\* predicate awaited holds and the task does not end in the timeout.
C12_AnySatisfiedByOne ==
    (lsn.pos # 0 /\ ListenItem.to \in {"one", "any"}) =>
        /\ (ListenInProgress /\ cur = "await" /\ lsn.fired # {}) => ListenPredicate(lsn)
        /\ (lsn.ret.done /\ lsn.ret.fired # {}) => lsn.ret.err # TimeoutError

\* C13 (as claimed): with mode `all`, once every handler has fired, whatever
\* the types of the filters, the predicate awaited holds and the task does not
\* end in the timeout.
C13_AllSatisfiedByEvery ==
    (lsn.pos # 0 /\ ListenItem.to = "all") =>
        /\ (ListenInProgress /\ cur = "await" /\ AllFired(lsn.fired)) => ListenPredicate(lsn)
        /\ (lsn.ret.done /\ AllFired(lsn.ret.fired)) => lsn.ret.err # TimeoutError

\* C14 (as claimed): a Listen task of any mode and any filter types returns
\* success only when its completion predicate holds.
C14_SuccessOnlyWhenSatisfied ==
    ListenSucceeded => ModeSatisfied(lsn.ret.fired)

\* C15 (as claimed): a Listen task that ends while its completion predicate
\* does not hold ends with the timeout error, and the sequence is aborted
\* with that error.
C15_UnsatisfiedEndsInTimeout ==
    (lsn.pos # 0 /\ lsn.ret.done /\ ~ModeSatisfied(lsn.ret.fired)) =>
        /\ lsn.ret.err = TimeoutError
        /\ phase = "failed"
        /\ result.returned /\ result.err = TimeoutError

\* C16: an update whose `if` renders anything but "true" is answered "not
\* complete", leaves the completion flags and the registered handlers as they
\* were, and an update whose `if` renders "true" marks its event complete.
C16_RejectedAttemptKeepsState ==
    [][lsn'.attempts = lsn.attempts + 1 =>
        /\ lsn'.handlers = lsn.handlers
        /\ IF lsn'.last.guarded /\ lsn'.last.conditional # <<"true">>
           THEN /\ ~lsn'.last.EventComplete
                /\ lsn'.isAllComplete = lsn.isAllComplete
                /\ lsn'.isAnyComplete = lsn.isAnyComplete
                /\ lsn'.fired = lsn.fired
           ELSE /\ lsn'.last.EventComplete
                /\ IF lsn.isAll
                   THEN lsn'.isAllComplete[lsn'.last.event]
                   ELSE lsn'.isAnyComplete]_vars_all

\* A guarded update was rejected twice and then accepted.
C16_Witness ==
    /\ lsn.rejected >= 2
    /\ lsn.attempts = lsn.rejected + 1
    /\ lsn.last.guarded
    /\ lsn.last.EventComplete
    /\ lsn.last.event \in lsn.fired

\* The sentinel error the specification names for an invalid Listen task.
ExpectedListenError(item) ==
    IF item.to = "until" THEN ErrUnsupportedTask
    ELSE IF item.to = "none" THEN ErrUnsetListenIDTask
    ELSE LET bad == {k \in 1..Len(item.events) :
                        \/ item.events[k].id = ""
                        \/ item.events[k].type \notin {"query", "signal", "update"}}
             f == item.events[CHOOSE k \in bad : \A m \in bad : k <= m]
         IN  IF bad = {} THEN Nil
             ELSE IF f.id = "" THEN ErrUnsetListenIDTask
             ELSE IF f.type = "" THEN ErrUnsetListenTypeTask
             ELSE ErrUnknownListenTypeTask

ClientErrors == 400..499
ServerErrors == 500..599
Successes == 200..399

ActKey == RootTasks[act.pos].Key

Carries(err, text) == \E k \in 1..Len(err) : err[k] = text

\* C18: a CallHTTP task answered with a 4xx status is not retried by the host
\* and aborts the sequence with a non-retryable error that carries the status;
\* no later unit runs and no OutputMap entry is written for the task.
C18_ClientErrorAborts ==
    \A k \in 1..Len(act.log) :
        act.log[k] \in ClientErrors =>
            /\ k = Len(act.log)
            /\ act.last.outcome = "nonretryable"
            /\ act.last.status = act.log[k]
            /\ Carries(act.last.err, ToString(act.log[k]))
            /\ <<ActKey>> \notin DOMAIN output
            /\ act.done =>
                  /\ phase = "failed"
                  /\ result.returned /\ result.outNil
                  /\ Carries(result.err, ToString(act.log[k]))
                  /\ \A m \in 1..Len(invoked) : invoked[m] <= act.pos

\* A 404 has aborted a sequence that had a unit left to run.
C18_Witness ==
    /\ act.done
    /\ act.log = <<404>>
    /\ phase = "failed"
    /\ act.pos < Len(RootTasks)

\* C19: every response status has exactly one outcome: 2xx/3xx is the result,
\* recorded under the task's own identifier once the activity has returned
\* without error; 4xx is a non-retryable failure; 5xx is a retryable failure,
\* the only kind of response after which the host runs the activity again.
C19_ResponseClassification ==
    /\ \A k \in 1..Len(act.log) :
          /\ k < Len(act.log) => act.log[k] \in ServerErrors \cup {NoResponse}
          /\ k = Len(act.log) =>
                /\ act.log[k] \in Successes => act.last.outcome = "success"
                /\ act.log[k] \in ClientErrors => act.last.outcome = "nonretryable"
                /\ act.log[k] \in ServerErrors => act.last.outcome = "retryable"
    /\ (act.done /\ act.last.outcome = "success") => <<ActKey>> \in DOMAIN output
    /\ \A p \in 1..Len(RootTasks) :
          <<RootTasks[p].Key>> \in DOMAIN output =>
              /\ RootTasks[p].Task.kind = "http"
              /\ \E k \in 1..Len(returned) : returned[k] = [pos |-> p, err |-> Nil]
              /\ p = act.pos => (act.done /\ act.log[Len(act.log)] \in Successes)

\* A 5xx was retried and the second answer, a 3xx, was recorded.
C19_Witness ==
    /\ act.done
    /\ act.log = <<599, 399>>
    /\ <<ActKey>> \in DOMAIN output

\* C20 (as claimed): a non-string value written by a Set task is in the
\* context unchanged when the task has returned, and a CallHTTP task that
\* follows a Set of userId and names {{ .userId }} in its endpoint sends its
\* request to the URL that ends in the value set.
C20_SetValueReachesRequest ==
    /\ \A k \in 1..Len(returned) :
          LET u == RootTasks[returned[k].pos]
          IN  (u.Task.kind = "set" /\ returned[k].err = Nil /\ k = Len(returned)
                  /\ ~IsString(u.Task.item.set[1].value)) =>
                  /\ u.Task.item.set[1].key \in DOMAIN vars
                  /\ vars[u.Task.item.set[1].key] = u.Task.item.set[1].value
    /\ (act.pos > 1 /\ RootTasks[act.pos].Task.item.endpoint = EndpointUser
            /\ RootTasks[act.pos - 1].Task.kind = "set"
            /\ returned[act.pos - 1].err = Nil) =>
          act.url = <<"https://example.com/users/",
                      RootTasks[act.pos - 1].Task.item.set[1].value[2]>>

(***************************************************************************)
(* C21..C30                                                                *)
(***************************************************************************)

\* C21 (as claimed): the result of an earlier CallHTTP task of the sequence is
\* available to the templates of later tasks: a CallHTTP whose endpoint names
\* {{ .t1 }}, scheduled after t1 has recorded its result, is not sent to a URL
\* rendered with "<no value>".
C21_CallOutputReachesTemplates ==
    (act.pos > 1 /\ RootTasks[act.pos].Task.item.endpoint = EndpointPrev
        /\ RootTasks[1].Key = "t1" /\ <<"t1">> \in DOMAIN output) =>
        act.url # <<"https://example.com/users/", "<no value>">>

\* The positions of the document's Raise tasks.
RaisePositions == {p \in 1..Len(doc) : doc[p].kind = "raise"}

\* C22 (as claimed): a sequence built from a document that holds a Raise task
\* never runs a unit of a task declared after the Raise and never completes
\* successfully.
C22_RaiseAborts ==
    \A p \in RaisePositions :
        /\ \A m \in 1..Len(invoked) : PosInDoc(RootTasks[invoked[m]].Key) <= p
        /\ phase # "done"

\* The units of the sequence that ran and recorded a result: CallHTTP units
\* whose Task call returned nil after the activity was run.
ProducedOutput ==
    {returned[k].pos : k \in {m \in 1..Len(returned) :
        /\ returned[m].err = Nil
        /\ RootTasks[returned[m].pos].Task.kind = "http"
        /\ CheckIfStatement(RootTasks[returned[m].pos].Task.item)}}

\* C23 (as claimed): a run that ends with an error returns no OutputMap, and
\* a run that ends in success returns an OutputMap that holds an entry for
\* every unit that ran and produced output, the branches of a Fork included.
C23_ErrorOrWholeOutput ==
    result.returned =>
        IF result.err # Nil
        THEN result.outNil /\ result.out = EmptyMap
        ELSE /\ ~result.outNil
             /\ \A p \in ProducedOutput : <<RootTasks[p].Key>> \in DOMAIN result.out
             /\ \A j \in 1..Len(br) :
                   br[j].o # EmptyMap =>
                       \/ NamespacedKey(br[j].fork, br[j].key) \in DOMAIN result.out
                       \/ <<br[j].key>> \in DOMAIN result.out

\* The name the specification gives the child graph of branch b (1-based
\* position) of the Fork task key; the index is taken 0-based or 1-based.
ForkChildNames(key, b) ==
    {<<"fork", "_", key, "_", IndexText[i]>> : i \in {b, b + 1}}

ForkPositions == {p \in 1..Len(doc) : doc[p].kind = "fork"}

\* C24 (as claimed): the list BuildWorkflows returns holds, besides the root
\* graph, one child graph per branch of every Fork, named
\* fork_<parentTaskId>_<branchIndex>, and no two graphs share a name.
C24_ForkChildrenReturned ==
    wfs # <<>> =>
        /\ \A p \in ForkPositions : \A b \in 1..Len(doc[p].sub) :
              \E w \in 1..Len(wfs) : wfs[w].Name \in ForkChildNames(doc[p].key, b)
        /\ \A v, w \in 1..Len(wfs) : v # w => wfs[v].Name # wfs[w].Name

(***************************************************************************)
(* Vocabulary of the Wait property.                                        *)
(***************************************************************************)
\* The sum of the components of a duration, in milliseconds.
SumOfComponents(v) ==
    v.Milliseconds + 1000 * v.Seconds + 60000 * v.Minutes + 3600000 * v.Hours
        + 86400000 * v.Days

WaitPositions == {p \in 1..Len(RootTasks) : RootTasks[p].Task.kind = "wait"}

\* C25: a Wait task asks the host for a sleep of the sum of its components
\* and writes no OutputMap entry; a unit after it has been invoked only if
\* the Wait returned without error after at least that much logical time
\* (5000 ms for a Wait of 5 seconds).
C25_WaitSuspendsForSum ==
    \A p \in WaitPositions :
        /\ <<RootTasks[p].Key>> \notin DOMAIN output
        /\ (Running /\ idx = p /\ cur = "await") =>
              clock.due = clock.from + SumOfComponents(RootTasks[p].Task.item.wait)
        /\ (\E m \in 1..Len(invoked) : invoked[m] > p) =>
              \E k \in 1..Len(clock.slept) :
                  /\ clock.slept[k].pos = p
                  /\ clock.slept[k].ok
                  /\ clock.slept[k].until - clock.slept[k].from
                        >= SumOfComponents(RootTasks[p].Task.item.wait)

\* A Wait with every component set slept exactly its duration (93 785 007 ms)
\* and the unit after it has been invoked.
C25_Witness ==
    /\ Len(clock.slept) >= 1
    /\ clock.slept[1].ok
    /\ RootTasks[1].Task.item.wait = Duration(1, 2, 3, 5, 7)
    /\ clock.slept[1].until - clock.slept[1].from = 93785007
    /\ Len(invoked) >= 2

\* The failed branch that comes first in declaration order.
FirstFailed == CHOOSE j \in FailedBranches : \A k \in FailedBranches : j <= k

\* C26 (as claimed): a Fork of which several branches failed returns the
\* error of the failed branch declared first, whatever the order in which the
\* branches finished.
C26_FirstDeclaredErrorWins ==
    (forkRet.pos # 0 /\ FailedBranches # {}) => forkRet.err = br[FirstFailed].err

\* The coroutines of the Fork in progress that have not finished.
Unfinished == {j \in 1..Len(br) : br[j].pc # "done"}

\* C27 (as claimed): while a Fork waits at its join for branches that have
\* not finished, the forking coroutine has yielded through a host primitive,
\* so that the host's cooperative dispatcher can run the branches and the
\* join eventually returns.
C27_JoinYieldsToBranches ==
    (Running /\ cur = "join" /\ Unfinished # {}) => YieldsToHost

\* The filters of the Listen in progress that are served by a handler.
HandlerFilters ==
    {e \in 1..Len(lsn.events) :
        lsn.events[e].type \in {ListenTaskTypeQuery, ListenTaskTypeUpdate}}

\* C28 (as claimed): whenever a Listen task is suspended waiting for an event,
\* the handler of every configured filter has been registered: no
\* registration waits for the event of an earlier filter.
C28_RegisteredBeforeSuspend ==
    (ListenInProgress /\ YieldsToHost) => \A e \in HandlerFilters : e \in lsn.handlers

\* C29 (as claimed): a step changes the VariableContext only if it is a Set
\* task running or an update being accepted; an update that is not accepted
\* leaves the VariableContext exactly as it was.
C29_RejectedUpdateKeepsContext ==
    [][/\ lsn'.rejected = lsn.rejected + 1 => vars' = vars
       /\ (Running /\ vars' # vars) =>
              \/ /\ Len(invoked') = Len(invoked) + 1
                 /\ RootTasks[idx].Task.kind = "set"
              \/ /\ lsn'.attempts = lsn.attempts + 1
                 /\ lsn'.last.EventComplete]_vars_all

\* The replay has re-executed every unit of the finished run.
ReplayDone == phase = "done" /\ replay.idx > Len(RootTasks)

\* C30 (as claimed): the replay of a run of Set tasks ends with the same
\* VariableContext as the run itself, having used one recorded value per
\* rendered entry, whatever the number of keys of a Set and even when a
\* helper returns a different value on every call.
C30_ReplayYieldsSameContext ==
    ReplayDone =>
        /\ replay.data = vars
        /\ replay.next = Len(markers) + 1

(***************************************************************************)
(* C31..C40                                                                *)
(***************************************************************************)

\* The key the specification has a Set entry written under: its key template
\* rendered against the context.
RenderedKey(key, data) ==
    IF key = KeyTpl THEN FieldText(data, "name") ELSE key

\* The Set units of one entry whose Task call was the last to return, without
\* error, and whose entry holds a string.
JustSetStrings ==
    {p \in 1..Len(RootTasks) :
        /\ Len(returned) >= 1
        /\ returned[Len(returned)] = [pos |-> p, err |-> Nil]
        /\ RootTasks[p].Task.kind = "set"
        /\ Len(RootTasks[p].Task.item.set) = 1
        /\ IsString(RootTasks[p].Task.item.set[1].value)}

\* C31 (as claimed, on entries that hold a string): when a Set task has
\* returned, its entry is in the context under the rendered key template,
\* never under the template's source text, and holds the rendered value.
C31_KeysAndValuesRendered ==
    \A p \in JustSetStrings :
        LET entry == RootTasks[p].Task.item.set[1]
        IN  /\ KeyTpl \notin DOMAIN vars
            /\ RenderedKey(entry.key, vars) \in DOMAIN vars
            /\ \E g \in HelperResults(entry.value) :
                  vars[RenderedKey(entry.key, vars)] = setTaskValue(entry.value[2], vars, g)

\* C32: a Set task leaves the OutputMap as it was, whether it returns nil or
\* an error.
C32_SetKeepsOutput ==
    [][(Len(invoked') = Len(invoked) + 1 /\ RootTasks[idx].Task.kind = "set") =>
          output' = output]_vars_all

\* A Set task has returned after a CallHTTP task had recorded its result.
C32_Witness ==
    /\ Len(returned) = 2
    /\ RootTasks[1].Task.kind = "http"
    /\ RootTasks[2].Task.kind = "set"
    /\ returned[2].err = Nil
    /\ DOMAIN output = {<<"t1">>}

\* C33 (as claimed): the document is never changed once it is loaded: no
\* step, the call of a Raise task's function included, changes the task
\* definitions, so that a second call starts from the same title, detail,
\* instance and status as the first.
C33_DefinitionNeverMutated ==
    [][doc' = doc]_vars_all

\* The built-in categories among the types explored.
BuiltInCategories == {ErrorTypeValidation, ErrorTypeTimeout}

\* C34 (as claimed): the error a Raise task produces carries the rendered
\* title template as its title, the rendered detail template as its detail
\* and the declared status and type; for a built-in category it carries the
\* workflow's instance identifier.
C34_RaisedErrorCarriesDefinition ==
    \A k \in 1..Len(raised) :
        raised[k].outcome = "error" =>
            LET d == raised[k].definition[1]
                e == raised[k].err[1]
            IN  /\ d.Title # Unset => e.Title = Evaluate(d.Title, raised[k].data)
                /\ d.Detail # Unset => e.Detail = Evaluate(d.Detail, raised[k].data)
                /\ e.Status = d.Status
                /\ e.Type = d.Type
                /\ d.Type \in BuiltInCategories => e.Instance = InstanceID

\* The document declares a task name more than once.
DuplicateKeys ==
    \E a, b \in 1..Len(doc) : a # b /\ doc[a].key = doc[b].key

\* C35 (as claimed): a task list that declares the same name twice is refused
\* when it is built, before any unit runs, and no two units of a sequence
\* record their result under the same OutputMap key.
C35_OutputKeysUnique ==
    /\ (DuplicateKeys /\ phase \notin {"loaded", "validated"}) =>
          (phase = "buildfail" /\ invoked = <<>>)
    /\ \A a, b \in ProducedOutput : a # b => RootTasks[a].Key # RootTasks[b].Key

\* A result the specification counts as true: the boolean true, a string
\* equal to "true" whatever its case, or the string "1".
Truthy(v) ==
    \/ v = Bool("true")
    \/ v[1] = "string" /\ v[2] \in {"true", "TRUE", "True", "1"}

\* The guarded CallHTTP units that have been invoked and whose guard was
\* parsed and evaluated without error.
GuardsEvaluated ==
    {p \in 1..Len(RootTasks) :
        /\ \E m \in 1..Len(invoked) : invoked[m] = p
        /\ RootTasks[p].Task.kind = "http"
        /\ RootTasks[p].Task.item.if \notin {NoIf, Unparsable}
        /\ \A k \in 1..Len(QueryRun(RootTasks[p].Task.item.if)) :
              QueryRun(RootTasks[p].Task.item.if)[k][1] # "error"}

Scheduled(p) == Effect(<<RootTasks[p].Key>>, "activity") \in effects

\* C36 (as claimed): a guarded task runs exactly when its expression has a
\* result and no result other than the boolean true, a string "true" in any
\* case or the string "1": any other result makes the guard false, also when
\* the expression yields several results; a task with no guard always runs.
C36_GuardTrueIffTruthy ==
    /\ \A p \in GuardsEvaluated :
          LET results == QueryRun(RootTasks[p].Task.item.if)
          IN  Scheduled(p) <=>
                  (results # <<>> /\ \A k \in 1..Len(results) : Truthy(results[k]))
    /\ \A p \in 1..Len(RootTasks) :
          (RootTasks[p].Task.kind = "http" /\ RootTasks[p].Task.item.if = NoIf
              /\ \E m \in 1..Len(invoked) : invoked[m] = p) => Scheduled(p)

\* The errors of the class the host never retries.
IsNonRetryable(err) == err # Nil /\ err[1] = "NonRetryableApplicationError"

\* The guarded units whose guard does not parse or fails when evaluated.
GuardsFailing ==
    {p \in 1..Len(RootTasks) :
        /\ \E m \in 1..Len(invoked) : invoked[m] = p
        /\ RootTasks[p].Task.kind = "http"
        /\ \/ RootTasks[p].Task.item.if = Unparsable
           \/ \E k \in 1..Len(QueryRun(RootTasks[p].Task.item.if)) :
                 QueryRun(RootTasks[p].Task.item.if)[k][1] = "error"}

\* C37 (as claimed): a guard that does not parse, or that fails when it is
\* evaluated, makes its task return an error of the non-retryable class at
\* once: the task does not run, no later unit is invoked and the sequence
\* returns that error.
C37_GuardErrorsNonRetryable ==
    \A p \in GuardsFailing :
        /\ ~Scheduled(p)
        /\ \A m \in 1..Len(invoked) : invoked[m] <= p
        /\ phase = "failed"
        /\ result.returned /\ result.outNil
        /\ IsNonRetryable(result.err)

\* The fields a statement names that the data does not hold.
AbsentFields(statement, data) ==
    {TemplateParts(statement)[i][2] :
        i \in {j \in 1..Len(TemplateParts(statement)) :
                  /\ TemplateParts(statement)[j][1] = "field"
                  /\ TemplateParts(statement)[j][2] \notin DOMAIN data}}

\* C38 (as claimed): a template that names a path absent from the context is
\* never rendered to a string, placeholder or empty: the CallHTTP task whose
\* endpoint is such a template sends no request, records no result and
\* returns an error.
C38_AbsentPathFailsTask ==
    (act.pos # 0 /\ AbsentFields(RootTasks[act.pos].Task.item.endpoint, vars) # {}) =>
        /\ act.url = <<>>
        /\ act.log = <<>>
        /\ <<ActKey>> \notin DOMAIN output
        /\ act.done => phase = "failed"

\* The sequence has started and no unit has been invoked yet.
AtStart == phase = "running" /\ invoked = <<>>

\* The variable of the environment can be read from the context.
Readable(e) == e.name \in DOMAIN vars /\ vars[e.name] = Str(e.value)

Matching == {e.name : e \in {x \in host.env : HasPrefix(x.name, ToUpper(host.prefix))}}

ForkResults ==
    IF FailedBranches = {} THEN {Nil} ELSE {br[j].err : j \in FailedBranches}

\* C40: compete changes nothing. With the flag set or unset a Fork starts one
\* coroutine per branch task, does not return while one of them has not
\* finished, cancels none, and returns what the outcomes of its branches
\* determine.
C40_CompeteChangesNothing ==
    \A p \in ForkPositions :
        /\ (cur = "join" /\ idx = p) =>
              /\ Len(br) = Len(doc[p].sub)
              /\ (\E j \in 1..Len(br) : br[j].pc # "done") =>
                    (forkRet = NoFork /\ Len(returned) = p - 1)
        /\ forkRet.pos = p =>
              /\ Len(br) = Len(doc[p].sub)
              /\ \A j \in 1..Len(br) : br[j].pc = "done"
              /\ forkRet.err \in ForkResults

\* C40 witness: a Fork with compete set has returned after its two branches
\* finished, one with a result and one with an error.
C40_Witness ==
    /\ doc[1].kind = "fork"
    /\ doc[1].compete
    /\ forkRet.pos = 1
    /\ Len(br) = 2
    /\ \E j, k \in 1..2 :
          /\ br[j].pc = "done" /\ br[j].err = Nil /\ br[j].o # EmptyMap
          /\ br[k].pc = "done" /\ br[k].err # Nil
          /\ forkRet.err = br[k].err

====
